---- MODULE Spec2Model ----
(***************************************************************************)
(* A model of the immutable IR mirror (src/src/xdsl/immutable_ir.py) and   *)
(* of the constraint matcher (src/xdsl/sasha_rewrite_pattern.py).          *)
(*                                                                         *)
(* The module holds several state machines over disjoint groups of         *)
(* variables; each specification runs one machine and leaves the others'   *)
(* variables at their idle values.                                         *)
(*   Spec          IList: a list that can be frozen                        *)
(***************************************************************************)
EXTENDS Integers, Sequences, FiniteSets, TLC

VARIABLES
    lst,        \* the IList under test: [items, frozen]
    exc,        \* the exception raised by the last call on lst ("none" if it returned)
    lastOp,     \* the name of the last method called on lst
    irpc,       \* the IR machine's phase: "build", "imm", "copied" or "rebuilt"
    mh,         \* the mutable module being built (operation 1 is the module)
    cur,        \* the block of the module's region that was inserted last
    curN,       \* the nested block that was created last (0: none)
    conv,       \* what get_immutable_copy(module) returned
    copy,       \* what get_mutable_copy returned, and the operation it was called on
    reb,        \* what from_iblock or new_op returned, and what it was called on
    walked,     \* the last traversal: what was walked, the visitor, the visits, the result
    nest,       \* nested new_op and from_op calls: the heap, the lists returned, the last call
    query,      \* the query: [variables, constraints]
    mop,        \* the operation the query was matched against last (0: none yet)
    mout,       \* what that match did
    pout,       \* what the match before it did, if it was on the same operation
    vset,       \* the last constraint evaluated on its own: the value it set, the contexts
    qrp,        \* what the pattern built from the query did last, and on which operation
    rpc,        \* the rewrite machine's phase: "build", "run" or "done"
    rmod,       \* the module being rewritten, with its use lists
    rstart,     \* the module's heap when the driver was started
    rpatterns,  \* the patterns given to the driver, in registration order
    rqueue,     \* the operations the driver has still to visit
    rlog,       \* the visits so far: the operation, the patterns invoked, the outcome
    rexc,       \* the exception the driver's caller received ("none" if none)
    rcalls,     \* the calls on the mutation handle made during the last visit
    rutils      \* what stands for xdsl.backend.riscv.lowering.utils in this run

listVars == <<lst, exc, lastOp>>
irVars == <<irpc, mh, cur, curN, conv, copy, reb, walked, nest>>

matchVars == <<query, mop, mout, pout, vset, qrp>>

rwVars == <<rpc, rmod, rstart, rpatterns, rqueue, rlog, rexc, rcalls, rutils>>

vars == <<listVars, irVars, matchVars, rwVars>>

\* what each machine leaves alone
notList == <<irVars, matchVars, rwVars>>
notIR == <<listVars, matchVars, rwVars>>
notMatch == <<listVars, irVars, rwVars>>
notRw == <<listVars, irVars, matchVars>>

(***************************************************************************)
(* Bounds                                                                  *)
(***************************************************************************)
MaxLen == 3      \* longest list the IList machine grows to
MaxElem == 2     \* list elements are 1..MaxElem
MaxBlocks == 2   \* most blocks in the module's region
MaxOps == 2      \* most operations in the module, the module itself not counted

Elems == 1..MaxElem
Idx == (0 - (MaxLen + 1))..(MaxLen + 1)
PopArgs == {[given |-> TRUE, i |-> i] : i \in Idx} \cup {[given |-> FALSE, i |-> 0]}
ShortSeqs == {<<>>} \cup {<<x>> : x \in Elems} \cup {<<x, y>> : x \in Elems, y \in Elems}

(***************************************************************************)
(* Python's list, the base class of IList (class IList(List[_T])).         *)
(* Python indexes from 0, TLA+ sequences from 1.                           *)
(***************************************************************************)
NoExc == "none"
FrozenMsg == "frozen list can not be modified"

RemoveAt(s, p) == SubSeq(s, 1, p - 1) \o SubSeq(s, p + 1, Len(s))

\* a slice bound as Python's slice.indices clamps it
ClampIdx(i, n) ==
    LET j == IF i < 0 THEN i + n ELSE i
    IN  IF j < 0 THEN 0 ELSE IF j > n THEN n ELSE j

RECURSIVE Repeat(_, _)
Repeat(s, k) == IF k <= 0 THEN <<>> ELSE s \o Repeat(s, k - 1)

RECURSIVE InsertSorted(_, _)
InsertSorted(s, x) ==
    IF s = <<>> THEN <<x>>
    ELSE IF x < Head(s) THEN <<x>> \o s
    ELSE <<Head(s)>> \o InsertSorted(Tail(s), x)

RECURSIVE Sorted(_)
Sorted(s) == IF s = <<>> THEN <<>> ELSE InsertSorted(Sorted(Tail(s)), Head(s))

Reversed(s) == [p \in 1..Len(s) |-> s[Len(s) + 1 - p]]

Ret(items, l, e) == [l |-> [items |-> items, frozen |-> l.frozen], exc |-> e]

list_append(l, x) == Ret(Append(l.items, x), l, NoExc)

list_extend(l, xs) == Ret(l.items \o xs, l, NoExc)

list_insert(l, i, x) ==
    LET p == ClampIdx(i, Len(l.items))
    IN  Ret(SubSeq(l.items, 1, p) \o <<x>> \o SubSeq(l.items, p + 1, Len(l.items)),
            l, NoExc)

list_remove(l, x) ==
    IF \E p \in 1..Len(l.items) : l.items[p] = x
    THEN LET p == CHOOSE q \in 1..Len(l.items) :
                      /\ l.items[q] = x
                      /\ \A r \in 1..(q - 1) : l.items[r] # x
         IN  Ret(RemoveAt(l.items, p), l, NoExc)
    ELSE Ret(l.items, l, "ValueError")

list_pop(l, i) ==
    LET n == Len(l.items)
        j == IF i < 0 THEN i + n ELSE i
    IN  IF n = 0 \/ j < 0 \/ j >= n
        THEN Ret(l.items, l, "IndexError")
        ELSE Ret(RemoveAt(l.items, j + 1), l, NoExc)

list_clear(l) == Ret(<<>>, l, NoExc)

list_setitem(l, i, x) ==
    LET n == Len(l.items)
        j == IF i < 0 THEN i + n ELSE i
    IN  IF j < 0 \/ j >= n
        THEN Ret(l.items, l, "IndexError")
        ELSE Ret([l.items EXCEPT ![j + 1] = x], l, NoExc)

list_delitem(l, i) ==
    LET n == Len(l.items)
        j == IF i < 0 THEN i + n ELSE i
    IN  IF j < 0 \/ j >= n
        THEN Ret(l.items, l, "IndexError")
        ELSE Ret(RemoveAt(l.items, j + 1), l, NoExc)

list_delslice(l, i, j) ==
    LET n == Len(l.items)
        a == ClampIdx(i, n)
        b == ClampIdx(j, n)
    IN  IF b <= a THEN Ret(l.items, l, NoExc)
        ELSE Ret(SubSeq(l.items, 1, a) \o SubSeq(l.items, b + 1, n), l, NoExc)

list_iadd(l, xs) == Ret(l.items \o xs, l, NoExc)

list_imul(l, k) == Ret(Repeat(l.items, k), l, NoExc)

list_sort(l) == Ret(Sorted(l.items), l, NoExc)

list_reverse(l) == Ret(Reversed(l.items), l, NoExc)

(***************************************************************************)
(* IList (immutable_ir.py 14-48): the six overridden methods test _frozen  *)
(* first; every other method of list is inherited unchanged.               *)
(***************************************************************************)
Raise(l, e) == [l |-> l, exc |-> e]

IList_new(items) == [items |-> items, frozen |-> FALSE]

IList_freeze(l) == [l |-> [l EXCEPT !.frozen = TRUE], exc |-> NoExc]

IList_append_unguarded(l, x) == list_append(l, x)

IList_append(l, x) ==
    IF l.frozen THEN Raise(l, FrozenMsg) ELSE list_append(l, x)

IList_extend(l, xs) ==
    IF l.frozen THEN Raise(l, FrozenMsg) ELSE list_extend(l, xs)

IList_insert(l, i, x) ==
    IF l.frozen THEN Raise(l, FrozenMsg) ELSE list_insert(l, i, x)

IList_remove(l, x) ==
    IF l.frozen THEN Raise(l, FrozenMsg) ELSE list_remove(l, x)

\* a: [given, i]; when no index is given the default is the Ellipsis object,
\* which list.pop rejects with a TypeError
IList_pop(l, a) ==
    IF l.frozen THEN Raise(l, FrozenMsg)
    ELSE IF ~a.given THEN Raise(l, "TypeError")
    ELSE list_pop(l, a.i)

IList_clear(l) ==
    IF l.frozen THEN Raise(l, FrozenMsg) ELSE list_clear(l)

(***************************************************************************)
(* The IList machine: one action per method call.                          *)
(***************************************************************************)
GuardedOps == {"append", "extend", "insert", "remove", "pop", "clear"}
InheritedOps == {"setitem", "delitem", "delslice", "iadd", "imul", "sort", "reverse"}

ListIdle ==
    /\ lst = IList_new(<<>>)
    /\ exc = NoExc
    /\ lastOp = "idle"

ListInit ==
    /\ lst \in {IList_new(s) : s \in ShortSeqs}
    /\ exc = NoExc
    /\ lastOp = "init"

\* the call returned r: the list object is now r.l
Called(name, r) ==
    /\ Len(r.l.items) <= MaxLen
    /\ lst' = r.l
    /\ exc' = r.exc
    /\ lastOp' = name
    /\ UNCHANGED notList

Freeze ==
    LET r == IList_freeze(lst)
    IN  Called("freeze", r)

AppendCall ==
    \E x \in Elems : LET r == IList_append(lst, x)
    IN  Called("append", r)

ExtendCall ==
    \E xs \in ShortSeqs : LET r == IList_extend(lst, xs)
    IN  Called("extend", r)

InsertCall ==
    \E i \in Idx, x \in Elems : LET r == IList_insert(lst, i, x)
    IN  Called("insert", r)

RemoveCall ==
    \E x \in Elems : LET r == IList_remove(lst, x)
    IN  Called("remove", r)

PopCall ==
    \E a \in PopArgs : LET r == IList_pop(lst, a)
    IN  Called("pop", r)

ClearCall ==
    LET r == IList_clear(lst)
    IN  Called("clear", r)

SetItemCall ==
    \E i \in Idx, x \in Elems : LET r == list_setitem(lst, i, x)
    IN  Called("setitem", r)

DelItemCall ==
    \E i \in Idx : LET r == list_delitem(lst, i)
    IN  Called("delitem", r)

DelSliceCall ==
    \E i \in Idx, j \in Idx : LET r == list_delslice(lst, i, j)
    IN  Called("delslice", r)

IAddCall ==
    \E xs \in ShortSeqs : LET r == list_iadd(lst, xs)
    IN  Called("iadd", r)

IMulCall ==
    \E k \in 0..2 : LET r == list_imul(lst, k)
    IN  Called("imul", r)

SortCall ==
    LET r == list_sort(lst)
    IN  Called("sort", r)

ReverseCall ==
    LET r == list_reverse(lst)
    IN  Called("reverse", r)

ListNext ==
    \/ Freeze
    \/ AppendCall
    \/ ExtendCall
    \/ InsertCall
    \/ RemoveCall
    \/ PopCall
    \/ ClearCall
    \/ SetItemCall
    \/ DelItemCall
    \/ DelSliceCall
    \/ IAddCall
    \/ IMulCall
    \/ SortCall
    \/ ReverseCall


(***************************************************************************)
(* Values, dictionaries and heaps.                                         *)
(*                                                                         *)
(* Objects compared by identity live in a heap and are named by their      *)
(* index in it.  A value reference is [k, id, idx, typ]:                   *)
(*   mutable   OpResult       k = "res", id = the operation, idx = index   *)
(*             BlockArgument  k = "arg", id = the block,     idx = index   *)
(*   immutable IResult        k = "res", id = the IOp,  idx = result_index *)
(*             IBlockArg      k = "arg", id = the IBlockArg object, idx 0  *)
(* A dictionary is a function from keys; a value's key is what its         *)
(* __eq__/__hash__ read (immutable_ir.py 61-67, 75-79), which leaves typ   *)
(* out.                                                                    *)
(***************************************************************************)
Val(k, id, idx, typ) == [k |-> k, id |-> id, idx |-> idx, typ |-> typ]

VKey(v) == <<v.k, v.id, v.idx>>

EmptyDict == [x \in {} |-> 0]

Has(d, key) == key \in DOMAIN d

Put(d, key, v) == [x \in (DOMAIN d) \cup {key} |-> IF x = key THEN v ELSE d[x]]

RECURSIVE Concat(_)
Concat(ss) == IF ss = <<>> THEN <<>> ELSE Head(ss) \o Concat(Tail(ss))

Range(s) == {s[i] : i \in 1..Len(s)}

IndexOf(s, x) == IF \E i \in 1..Len(s) : s[i] = x
                 THEN CHOOSE i \in 1..Len(s) : s[i] = x ELSE 0

\* OpData.name of an operation class
ClassName(t) ==
    CASE t = "Module" -> "builtin.module"
      [] t = "Const" -> "arith.constant"
      [] t = "Use" -> "test.use"
      [] t = "Br" -> "cf.br"
      [] t = "Scope" -> "test.scope"
      [] OTHER -> "unregistered"

(***************************************************************************)
(* The mutable IR (spec section 3): operations, blocks and regions.        *)
(*   operation [op_type, attributes, operands, result_types, successors,   *)
(*              regions]                                                   *)
(*   block     [arg_types, ops]                                            *)
(*   region    [blocks]                                                    *)
(***************************************************************************)
EmptyMHeap == [ops |-> <<>>, blocks |-> <<>>, regions |-> <<>>]

\* Operation.create: a new operation, its results numbered from 0
Operation_create(m, op_type, operands, result_types, attributes, successors, regions) ==
    [h |-> [m EXCEPT !.ops = Append(@,
                [op_type |-> op_type, attributes |-> attributes,
                 operands |-> operands, result_types |-> result_types,
                 successors |-> successors, regions |-> regions])],
     ret |-> Len(m.ops) + 1]

\* Block.from_arg_types: a new block with one argument per type and no operation
Block_from_arg_types(m, arg_types) ==
    [h |-> [m EXCEPT !.blocks = Append(@, [arg_types |-> arg_types, ops |-> <<>>])],
     ret |-> Len(m.blocks) + 1]

\* Block.add_op: the operation becomes the block's last
Block_add_op(m, b, op) == [m EXCEPT !.blocks[b].ops = Append(@, op)]

\* Region.from_block_list: a new region owning the blocks, in order
Region_from_block_list(m, blocks) ==
    [h |-> [m EXCEPT !.regions = Append(@, [blocks |-> blocks])],
     ret |-> Len(m.regions) + 1]

\* the results and the block arguments of a mutable heap, as value references
MResults(m) ==
    UNION {{Val("res", o, i - 1, m.ops[o].result_types[i]) :
                i \in 1..Len(m.ops[o].result_types)} : o \in 1..Len(m.ops)}

MArgs(m) ==
    UNION {{Val("arg", b, i - 1, m.blocks[b].arg_types[i]) :
                i \in 1..Len(m.blocks[b].arg_types)} : b \in 1..Len(m.blocks)}

(***************************************************************************)
(* The immutable IR (immutable_ir.py).  The heap holds                     *)
(*   datas   OpData    [name, op_type, attributes]                         *)
(*   ops     IOp       [op_data, operands, results, successors, regions]   *)
(*   blocks  IBlock    [args, ops]                                         *)
(*   regions IRegion   [blocks]                                            *)
(*   args    IBlockArg [typ, block, index]    (block 0 is None)            *)
(* and every sequence field is an IList [items, frozen].                   *)
(***************************************************************************)
EmptyIHeap == [datas |-> <<>>, ops |-> <<>>, blocks |-> <<>>, regions |-> <<>>,
               args |-> <<>>]

\* IList(xs) followed by freeze(), as the constructors do
Unfrozen(xs) == IList_new(xs)

Frozen(xs) == IList_freeze(IList_new(xs)).l

\* IRegion.__init__ (113-116)
IRegion_init(h, blocks) ==
    [h |-> [h EXCEPT !.regions = Append(@, [blocks |-> Frozen(blocks)])],
     ret |-> Len(h.regions) + 1,
     exc |-> NoExc]

\* IOp.__init__ (409-427): the results are IResult(type, self, idx)
IOp_init(h, op_data, operands, result_types, successors, regions) ==
    LET self == Len(h.ops) + 1
        results == [i \in 1..Len(result_types) |->
                        Val("res", self, i - 1, result_types[i])]
    IN  [h |-> [h EXCEPT !.ops = Append(@,
                    [op_data |-> op_data,
                     operands |-> Frozen(operands),
                     results |-> Frozen(results),
                     successors |-> Frozen(successors),
                     regions |-> Frozen(regions)])],
         ret |-> self,
         exc |-> NoExc]

\* IOp.get (429-435): a new OpData record, then the constructor
IOp_get(h, name, op_type, operands, result_types, attributes, successors, regions) ==
    LET h1 == [h EXCEPT !.datas = Append(@,
                    [name |-> name, op_type |-> op_type, attributes |-> attributes])]
    IN  IOp_init(h1, Len(h.datas) + 1, operands, result_types, successors, regions)

\* IBlock.__init__ (205-234).  args is [tag, items]: tag "types" for a
\* sequence of Attributes, "args" for a sequence of IBlockArg references,
\* anything else for an ill-structured sequence.  An empty sequence passes
\* is_type_seq whatever it was meant to hold.
IBlock_init(h, args, ops) ==
    LET self == Len(h.blocks) + 1
        n == Len(args.items)
        first == Len(h.args)
    IN  IF args.tag = "types" \/ n = 0
        THEN LET new == [i \in 1..n |-> [typ |-> args.items[i], block |-> self,
                                         index |-> i - 1]]
                 refs == [i \in 1..n |-> Val("arg", first + i, 0, args.items[i])]
             IN  [h |-> [h EXCEPT !.args = @ \o new,
                                  !.blocks = Append(@, [args |-> Frozen(refs),
                                                        ops |-> Frozen(ops)])],
                  ret |-> self,
                  exc |-> NoExc]
        ELSE IF args.tag = "args"
        THEN LET stamped == {args.items[i].id : i \in 1..n}
             IN  [h |-> [h EXCEPT !.args = [a \in 1..Len(@) |->
                                      IF a \in stamped THEN [@[a] EXCEPT !.block = self]
                                      ELSE @[a]],
                                  !.blocks = Append(@, [args |-> Frozen(args.items),
                                                        ops |-> Frozen(ops)])],
                  ret |-> self,
                  exc |-> NoExc]
        ELSE [h |-> h, ret |-> 0, exc |-> "args for IBlock ill structured"]

\* IBlockArg(typ, None, idx): an argument not yet attached to a block
IBlockArg_new(h, typ, index) ==
    [h |-> [h EXCEPT !.args = Append(@, [typ |-> typ, block |-> 0, index |-> index])],
     ret |-> Val("arg", Len(h.args) + 1, 0, typ)]

(***************************************************************************)
(* from_mutable (immutable_ir.py 118-134, 325-350, 520-585).               *)
(*                                                                         *)
(* Every function takes the mutable heap m, the immutable heap h, and the  *)
(* dictionaries it was passed, and returns [h, value_map, block_map, exc,  *)
(* ret]: the heap and the dictionaries as the call leaves them, the        *)
(* exception it raised (NoExc if it returned) and its return value.  A     *)
(* caller that passes no dictionary gives the callee fresh ones, and       *)
(* drops them on return.  d is the depth of the call stack.                *)
(***************************************************************************)
RecursionLimit == 12    \* stands for Python's recursion limit

Out(h, value_map, block_map, e, ret) ==
    [h |-> h, value_map |-> value_map, block_map |-> block_map, exc |-> e, ret |-> ret]

\* Let(v, F) is F(v) with v evaluated once
Let(v, F(_)) == CHOOSE y \in {F(w) : w \in {v}} : TRUE

RECURSIVE IOp_from_mutable(_, _, _, _, _, _)
RECURSIVE IBlock_from_mutable(_, _, _, _, _, _)
RECURSIVE IRegion_from_mutable(_, _, _, _, _, _)
RECURSIVE FromMutable_operands(_, _, _, _, _, _, _)
RECURSIVE FromMutable_successors(_, _, _, _, _, _, _)
RECURSIVE FromMutable_regions(_, _, _, _, _, _, _, _)
RECURSIVE FromMutable_ops(_, _, _, _, _, _, _, _)
RECURSIVE FromMutable_blocks(_, _, _, _, _, _, _, _)

\* the operands loop (536-557), from operand i on; acc holds the operands so
\* far.  A result that value_map does not know has its operation converted
\* by IOp.from_mutable(operand.op), which is given no dictionary.
FromMutable_operands(m, h, op, value_map, i, acc, d) ==
    IF i > Len(m.ops[op].operands) THEN Out(h, value_map, EmptyDict, NoExc, acc)
    ELSE LET operand == m.ops[op].operands[i]
         IN  IF operand.k = "res"
             THEN IF Has(value_map, VKey(operand))
                  THEN FromMutable_operands(m, h, op, value_map, i + 1,
                           Append(acc, Val("res", value_map[VKey(operand)].id,
                                           operand.idx, operand.typ)), d)
                  ELSE Let(IOp_from_mutable(m, h, operand.id, EmptyDict, EmptyDict,
                                            d + 1),
                           LAMBDA r :
                           IF r.exc # NoExc
                           THEN Out(r.h, value_map, EmptyDict, r.exc, acc)
                           ELSE FromMutable_operands(m, r.h, op, value_map, i + 1,
                                    Append(acc, Val("res", r.ret, operand.idx,
                                                    operand.typ)), d))
             ELSE IF ~Has(value_map, VKey(operand))
                  THEN Out(h, value_map, EmptyDict,
                           "Block argument expected in mapping for op", acc)
                  ELSE FromMutable_operands(m, h, op, value_map, i + 1,
                           Append(acc, value_map[VKey(operand)]), d)

\* the successors loop (563-571): a block that block_map does not know is
\* converted by IBlock.from_mutable(successor), which is given no dictionary
FromMutable_successors(m, h, op, block_map, i, acc, d) ==
    IF i > Len(m.ops[op].successors) THEN Out(h, EmptyDict, block_map, NoExc, acc)
    ELSE LET successor == m.ops[op].successors[i]
         IN  IF Has(block_map, successor)
             THEN FromMutable_successors(m, h, op, block_map, i + 1,
                      Append(acc, block_map[successor]), d)
             ELSE Let(IBlock_from_mutable(m, h, successor, EmptyDict, EmptyDict,
                                          d + 1),
                      LAMBDA r :
                      IF r.exc # NoExc
                      THEN Out(r.h, EmptyDict, block_map, r.exc, acc)
                      ELSE FromMutable_successors(m, r.h, op,
                               Put(block_map, successor, r.ret), i + 1,
                               Append(acc, r.ret), d))

\* the regions loop (573-576)
FromMutable_regions(m, h, op, value_map, block_map, i, acc, d) ==
    IF i > Len(m.ops[op].regions) THEN Out(h, value_map, block_map, NoExc, acc)
    ELSE Let(IRegion_from_mutable(m, h, m.regions[m.ops[op].regions[i]].blocks,
                                  value_map, block_map, d + 1),
             LAMBDA r :
             IF r.exc # NoExc THEN r
             ELSE FromMutable_regions(m, r.h, op, r.value_map, r.block_map, i + 1,
                                      Append(acc, r.ret), d))

\* IOp.from_mutable (520-585), existing_operands not given: the operands,
\* the successors, the regions, then IOp.get and the results' entries in
\* value_map
IOp_from_mutable(m, h, op, value_map, block_map, d) ==
    IF d > RecursionLimit THEN Out(h, value_map, block_map, "RecursionError", 0)
    ELSE
    Let(FromMutable_operands(m, h, op, value_map, 1, <<>>, d), LAMBDA r1 :
    IF r1.exc # NoExc THEN Out(r1.h, value_map, block_map, r1.exc, 0)
    ELSE
    Let(FromMutable_successors(m, r1.h, op, block_map, 1, <<>>, d), LAMBDA r2 :
    IF r2.exc # NoExc THEN Out(r2.h, value_map, r2.block_map, r2.exc, 0)
    ELSE
    Let(FromMutable_regions(m, r2.h, op, value_map, r2.block_map, 1, <<>>, d),
        LAMBDA r3 :
    IF r3.exc # NoExc THEN Out(r3.h, r3.value_map, r3.block_map, r3.exc, 0)
    ELSE
    Let(IOp_get(r3.h, ClassName(m.ops[op].op_type), m.ops[op].op_type, r1.ret,
                m.ops[op].result_types, m.ops[op].attributes, r2.ret, r3.ret),
        LAMBDA r4 :
    LET updates == {VKey(Val("res", op, i - 1, m.ops[op].result_types[i])) :
                        i \in 1..Len(m.ops[op].result_types)}
    IN  Out(r4.h,
            [key \in (DOMAIN r3.value_map) \cup updates |->
                IF key \in updates THEN r4.h.ops[r4.ret].results.items[key[3] + 1]
                ELSE r3.value_map[key]],
            r3.block_map, NoExc, r4.ret)))))

\* the operations loop of IBlock.from_mutable (345-348)
FromMutable_ops(m, h, block, value_map, block_map, i, acc, d) ==
    IF i > Len(m.blocks[block].ops) THEN Out(h, value_map, block_map, NoExc, acc)
    ELSE Let(IOp_from_mutable(m, h, m.blocks[block].ops[i], value_map, block_map,
                              d + 1),
             LAMBDA r :
             IF r.exc # NoExc THEN r
             ELSE FromMutable_ops(m, r.h, block, r.value_map, r.block_map, i + 1,
                                  Append(acc, r.ret), d))

\* IBlock.from_mutable (325-350): the arguments are minted unattached and
\* recorded in value_map, the operations are converted in order, and the
\* IBlock is built from the arguments and the operations
IBlock_from_mutable(m, h, block, value_map, block_map, d) ==
    IF d > RecursionLimit THEN Out(h, value_map, block_map, "RecursionError", 0)
    ELSE
    LET types == m.blocks[block].arg_types
        n == Len(types)
        args == [i \in 1..n |-> Val("arg", Len(h.args) + i, 0, types[i])]
        keys == {VKey(Val("arg", block, i - 1, types[i])) : i \in 1..n}
    IN  Let(FromMutable_ops(m,
                [h EXCEPT !.args = @ \o [i \in 1..n |->
                              [typ |-> types[i], block |-> 0, index |-> i - 1]]],
                block,
                [key \in (DOMAIN value_map) \cup keys |->
                    IF key \in keys THEN args[key[3] + 1] ELSE value_map[key]],
                block_map, 1, <<>>, d),
            LAMBDA r :
            IF r.exc # NoExc THEN r
            ELSE Let(IBlock_init(r.h, [tag |-> "args", items |-> args], r.ret),
                     LAMBDA b : Out(b.h, r.value_map, r.block_map, b.exc, b.ret)))

\* the blocks loop of IRegion.from_mutable (129-132)
FromMutable_blocks(m, h, blocks, value_map, block_map, i, acc, d) ==
    IF i > Len(blocks) THEN Out(h, value_map, block_map, NoExc, acc)
    ELSE Let(IBlock_from_mutable(m, h, blocks[i], value_map, block_map, d + 1),
             LAMBDA r :
             IF r.exc # NoExc THEN r
             ELSE FromMutable_blocks(m, r.h, blocks, r.value_map, r.block_map, i + 1,
                                     Append(acc, r.ret), d))

\* block.parent is not None: the block is in the list of some region
Block_has_parent(m, block) ==
    \E r \in 1..Len(m.regions) : block \in Range(m.regions[r].blocks)

\* IRegion.from_mutable (118-134): the blocks are converted, then the first
\* block is asserted to have a parent; blocks[0] of an empty list is an
\* IndexError
IRegion_from_mutable(m, h, blocks, value_map, block_map, d) ==
    IF d > RecursionLimit THEN Out(h, value_map, block_map, "RecursionError", 0)
    ELSE Let(FromMutable_blocks(m, h, blocks, value_map, block_map, 1, <<>>, d),
             LAMBDA r :
             IF r.exc # NoExc THEN r
             ELSE IF blocks = <<>>
             THEN Out(r.h, r.value_map, r.block_map, "IndexError", 0)
             ELSE IF ~Block_has_parent(m, blocks[1])
             THEN Out(r.h, r.value_map, r.block_map, "AssertionError", 0)
             ELSE Let(IRegion_init(r.h, r.ret),
                      LAMBDA g : Out(g.h, r.value_map, r.block_map, NoExc, g.ret)))

\* get_immutable_copy (382-383): value_map {}, block_map not given
get_immutable_copy(m, h, op) == IOp_from_mutable(m, h, op, EmptyDict, EmptyDict, 0)

(***************************************************************************)
(* get_mutable_copy (immutable_ir.py 136-149, 352-370, 471-518).           *)
(*                                                                         *)
(* h is the immutable heap, which the copy only reads, and m the mutable   *)
(* heap the copy is built in.  The functions return [h, value_map,         *)
(* block_map, exc, ret] with h the mutable heap and the two dictionaries   *)
(* value_mapping and block_mapping.                                        *)
(***************************************************************************)
\* what get_mutable_copy puts in place of an operand it cannot resolve:
\* OpResult(operand.typ, None, 0), a result that belongs to no operation
Placeholder(typ) == Val("res", 0, 0, typ)

RECURSIVE IOp_get_mutable_copy(_, _, _, _, _)
RECURSIVE IBlock_get_mutable_copy(_, _, _, _, _)
RECURSIVE IRegion_get_mutable_copy(_, _, _, _, _)
RECURSIVE MutableCopy_regions(_, _, _, _, _, _, _)
RECURSIVE MutableCopy_ops(_, _, _, _, _, _, _)
RECURSIVE MutableCopy_blocks(_, _, _, _, _, _, _)

\* the operands loop (480-492): an operand missing from value_mapping is
\* reported on standard output and replaced by a placeholder
MutableCopy_operands(h, op, value_mapping) ==
    [i \in 1..Len(h.ops[op].operands.items) |->
        LET operand == h.ops[op].operands.items[i]
        IN  IF Has(value_mapping, VKey(operand)) THEN value_mapping[VKey(operand)]
            ELSE Placeholder(operand.typ)]

\* the successors loop (494-499)
MutableCopy_successors(h, op, block_mapping) ==
    LET successors == h.ops[op].successors.items
    IN  IF \E i \in 1..Len(successors) : ~Has(block_mapping, successors[i])
        THEN [exc |-> "Block used before definition", ret |-> <<>>]
        ELSE [exc |-> NoExc,
              ret |-> [i \in 1..Len(successors) |-> block_mapping[successors[i]]]]

\* the regions loop (501-505)
MutableCopy_regions(h, m, op, value_mapping, block_mapping, i, acc) ==
    IF i > Len(h.ops[op].regions.items)
    THEN Out(m, value_mapping, block_mapping, NoExc, acc)
    ELSE Let(IRegion_get_mutable_copy(h, m, h.ops[op].regions.items[i],
                                      value_mapping, block_mapping),
             LAMBDA r :
             IF r.exc # NoExc THEN r
             ELSE MutableCopy_regions(h, r.h, op, r.value_map, r.block_map, i + 1,
                                      Append(acc, r.ret)))

\* IOp.get_mutable_copy (471-518): the operands, the successors, the
\* regions, then op_type.create and the results' entries in value_mapping
IOp_get_mutable_copy(h, m, op, value_mapping, block_mapping) ==
    Let(MutableCopy_successors(h, op, block_mapping), LAMBDA s :
    IF s.exc # NoExc THEN Out(m, value_mapping, block_mapping, s.exc, 0)
    ELSE
    Let(MutableCopy_regions(h, m, op, value_mapping, block_mapping, 1, <<>>),
        LAMBDA r :
    IF r.exc # NoExc THEN r
    ELSE
    LET results == h.ops[op].results.items
        result_types == [i \in 1..Len(results) |-> results[i].typ]
        keys == {VKey(results[i]) : i \in 1..Len(results)}
    IN
    Let(Operation_create(r.h, h.datas[h.ops[op].op_data].op_type,
                         MutableCopy_operands(h, op, value_mapping), result_types,
                         h.datas[h.ops[op].op_data].attributes, s.ret, r.ret),
        LAMBDA c :
        Out(c.h,
            [key \in (DOMAIN r.value_map) \cup keys |->
                IF key \in keys
                THEN Val("res", c.ret, key[3], result_types[key[3] + 1])
                ELSE r.value_map[key]],
            r.block_map, NoExc, c.ret))))

\* the operations loop of IBlock.get_mutable_copy (366-369)
MutableCopy_ops(h, m, block, new_block, value_mapping, block_mapping, i) ==
    IF i > Len(h.blocks[block].ops.items)
    THEN Out(m, value_mapping, block_mapping, NoExc, new_block)
    ELSE Let(IOp_get_mutable_copy(h, m, h.blocks[block].ops.items[i],
                                  value_mapping, block_mapping),
             LAMBDA r :
             IF r.exc # NoExc THEN r
             ELSE MutableCopy_ops(h, Block_add_op(r.h, new_block, r.ret), block,
                                  new_block, r.value_map, r.block_map, i + 1))

\* IBlock.get_mutable_copy (352-370): the new block and its arguments are
\* recorded before the operations are copied
IBlock_get_mutable_copy(h, m, block, value_mapping, block_mapping) ==
    LET args == h.blocks[block].args.items
        arg_types == [i \in 1..Len(args) |-> h.args[args[i].id].typ]
        keys == {VKey(args[i]) : i \in 1..Len(args)}
        \* the loop assigns in order: of an argument listed twice the last
        \* position stays
        idxOf(key) == CHOOSE i \in 1..Len(args) :
                          /\ VKey(args[i]) = key
                          /\ \A j \in (i + 1)..Len(args) : VKey(args[j]) # key
    IN  Let(Block_from_arg_types(m, arg_types), LAMBDA nb :
            MutableCopy_ops(h, nb.h, block, nb.ret,
                [key \in (DOMAIN value_mapping) \cup keys |->
                    IF key \in keys
                    THEN Val("arg", nb.ret, idxOf(key) - 1, arg_types[idxOf(key)])
                    ELSE value_mapping[key]],
                Put(block_mapping, block, nb.ret), 1))

\* the blocks loop of IRegion.get_mutable_copy (144-148)
MutableCopy_blocks(h, m, region, value_mapping, block_mapping, i, acc) ==
    IF i > Len(h.regions[region].blocks.items)
    THEN Out(m, value_mapping, block_mapping, NoExc, acc)
    ELSE Let(IBlock_get_mutable_copy(h, m, h.regions[region].blocks.items[i],
                                     value_mapping, block_mapping),
             LAMBDA r :
             IF r.exc # NoExc THEN r
             ELSE MutableCopy_blocks(h, r.h, region, r.value_map, r.block_map, i + 1,
                                     Append(acc, r.ret)))

\* IRegion.get_mutable_copy (136-149)
IRegion_get_mutable_copy(h, m, region, value_mapping, block_mapping) ==
    Let(MutableCopy_blocks(h, m, region, value_mapping, block_mapping, 1, <<>>),
        LAMBDA r :
        IF r.exc # NoExc THEN r
        ELSE Let(Region_from_block_list(r.h, r.ret),
                 LAMBDA g : Out(g.h, r.value_map, r.block_map, NoExc, g.ret)))

(***************************************************************************)
(* Rebuilding: new_op, from_op, _unpack_operands (606-718) and             *)
(* IBlock.from_iblock (236-323).                                           *)
(*                                                                         *)
(* An optional argument is [some, v]; env is a dictionary from the keys of *)
(* old values to new values.  An operand handed to new_op or from_op is a  *)
(* value, an IOp [k |-> "op", id] or a list of IOps [k |-> "list", ops].   *)
(* The functions return [h, env, exc, ret].                                *)
(***************************************************************************)
Some(v) == [some |-> TRUE, v |-> v]
None == [some |-> FALSE, v |-> <<>>]

OpRef(op) == [k |-> "op", id |-> op]
ListRef(ops) == [k |-> "list", ops |-> ops]

EOut(h, env, e, ret) == [h |-> h, env |-> env, exc |-> e, ret |-> ret]

\* IOp.walk (593-596), IBlock.walk (371-373), IRegion.walk (151-153): the
\* operations in the order fun is called on them
RECURSIVE IOp_walk(_, _)
RECURSIVE IBlock_walk(_, _)
RECURSIVE IRegion_walk(_, _)
\* a traversal that calls fun on the operation after its regions
IOp_walk_postorder(h, op) ==
    Concat([r \in 1..Len(h.ops[op].regions.items) |->
               IRegion_walk(h, h.ops[op].regions.items[r])]) \o <<op>>

IOp_walk(h, op) ==
    <<op>> \o Concat([r \in 1..Len(h.ops[op].regions.items) |->
                         IRegion_walk(h, h.ops[op].regions.items[r])])

IBlock_walk(h, block) ==
    Concat([i \in 1..Len(h.blocks[block].ops.items) |->
               IOp_walk(h, h.blocks[block].ops.items[i])])

IRegion_walk(h, region) ==
    Concat([b \in 1..Len(h.regions[region].blocks.items) |->
               IBlock_walk(h, h.regions[region].blocks.items[b])])

(***************************************************************************)
(* walk_abortable.  The visitor is given by the set of operations on      *)
(* which it returns False; the result is the sequence of operations the   *)
(* visitor was invoked on and the value returned.                         *)
(***************************************************************************)
WOut(visited, ret) == [visited |-> visited, ret |-> ret]

\* a block walk that goes on with the next operation after a False
RECURSIVE IBlock_walk_abortable_loop_on(_, _, _, _, _)

RECURSIVE IOp_walk_abortable(_, _, _)
RECURSIVE IOp_walk_abortable_loop(_, _, _, _, _)
RECURSIVE IRegion_walk_abortable(_, _, _)
RECURSIVE IRegion_walk_abortable_loop(_, _, _, _, _)
RECURSIVE IBlock_walk_abortable(_, _, _)
RECURSIVE IBlock_walk_abortable_loop(_, _, _, _, _)

\* if not fun(self): return False; then the regions
IOp_walk_abortable(h, op, stops) ==
    IF op \in stops THEN WOut(<<op>>, FALSE)
    ELSE IOp_walk_abortable_loop(h, h.ops[op].regions.items, 1, <<op>>, stops)

\* for region in self.regions: if not region.walk_abortable(fun): return False
IOp_walk_abortable_loop(h, regions, i, visited, stops) ==
    IF i > Len(regions) THEN WOut(visited, TRUE)
    ELSE Let(IRegion_walk_abortable(h, regions[i], stops),
             LAMBDA w :
               IF ~w.ret THEN WOut(visited \o w.visited, FALSE)
               ELSE IOp_walk_abortable_loop(h, regions, i + 1,
                                            visited \o w.visited, stops))

IRegion_walk_abortable(h, region, stops) ==
    IRegion_walk_abortable_loop(h, h.regions[region].blocks.items, 1, <<>>, stops)

\* for block in self.blocks: if not block.walk_abortable(fun): return False
IRegion_walk_abortable_loop(h, blocks, i, visited, stops) ==
    IF i > Len(blocks) THEN WOut(visited, TRUE)
    ELSE Let(IBlock_walk_abortable(h, blocks[i], stops),
             LAMBDA w :
               IF ~w.ret THEN WOut(visited \o w.visited, FALSE)
               ELSE IRegion_walk_abortable_loop(h, blocks, i + 1,
                                                visited \o w.visited, stops))

IBlock_walk_abortable(h, block, stops) ==
    IBlock_walk_abortable_loop(h, h.blocks[block].ops.items, 1, <<>>, stops)

IBlock_walk_abortable_loop_on(h, ops, i, visited, stops) ==
    IF i > Len(ops) THEN WOut(visited, TRUE)
    ELSE Let(IOp_walk_abortable(h, ops[i], stops),
             LAMBDA w :
               Let(IBlock_walk_abortable_loop_on(h, ops, i + 1,
                                                 visited \o w.visited, stops),
                   LAMBDA rest : WOut(rest.visited, w.ret /\ rest.ret)))

\* for op in self.ops: if not op.walk_abortable(fun): return False
IBlock_walk_abortable_loop(h, ops, i, visited, stops) ==
    IF i > Len(ops) THEN WOut(visited, TRUE)
    ELSE Let(IOp_walk_abortable(h, ops[i], stops),
             LAMBDA w :
               IF ~w.ret THEN WOut(visited \o w.visited, FALSE)
               ELSE IBlock_walk_abortable_loop(h, ops, i + 1,
                                               visited \o w.visited, stops))

\* the operations check_used returns False on: those with the value among
\* their operands
UsersOfValue(h, value) ==
    {o \in 1..Len(h.ops) :
        \E p \in 1..Len(h.ops[o].operands.items) :
            VKey(h.ops[o].operands.items[p]) = VKey(value)}

\* IRegion.value_used_inside
IRegion_value_used_inside(h, region, value) ==
    ~IRegion_walk_abortable(h, region, UsersOfValue(h, value)).ret


\* rewritten_ops.remove(op)
RemoveFirst(s, x) == IF IndexOf(s, x) = 0 THEN s ELSE RemoveAt(s, IndexOf(s, x))

\* for op in reversed(ops): drop op from rewritten_ops if it is there, then
\* put it in front (700-706)
RECURSIVE Unpack_prepend(_, _, _)
Unpack_prepend(ops, i, rewritten_ops) ==
    IF i = 0 THEN rewritten_ops
    ELSE Unpack_prepend(ops, i - 1, <<ops[i]>> \o RemoveFirst(rewritten_ops, ops[i]))

\* IOp.result (452-456): the first result, or None
HasResult(h, op) == h.ops[op].results.items # <<>>

\* lines 711-716 for one value: the env lookup, then the RewriteId bypass
Unpack_value(h, v, env) ==
    LET w == IF Has(env, VKey(v)) THEN env[VKey(v)] ELSE v
    IN  IF w.k = "res" /\ h.datas[h.ops[w.id].op_data].op_type = "RewriteId"
        THEN IF h.ops[w.id].operands.items = <<>>
             THEN [exc |-> "IndexError", v |-> w]
             ELSE [exc |-> NoExc,
                   v |-> h.ops[w.id].operands.items[Len(h.ops[w.id].operands.items)]]
        ELSE [exc |-> NoExc, v |-> w]

\* the loop of _unpack_operands (694-717), from operand i on
RECURSIVE Unpack_loop(_, _, _, _, _, _)
Unpack_loop(h, operands, env, i, unpacked_operands, rewritten_ops) ==
    IF i > Len(operands)
    THEN [exc |-> NoExc, operands |-> unpacked_operands, rewritten_ops |-> rewritten_ops]
    ELSE IF operands[i].k = "op"
    THEN IF ~HasResult(h, operands[i].id)
         THEN [exc |-> "AssertionError", operands |-> unpacked_operands,
               rewritten_ops |-> rewritten_ops]
         ELSE Let(Unpack_value(h, h.ops[operands[i].id].results.items[1], env),
                  LAMBDA u :
                    IF u.exc # NoExc
                    THEN [exc |-> u.exc, operands |-> unpacked_operands,
                          rewritten_ops |-> rewritten_ops]
                    ELSE Unpack_loop(h, operands, env, i + 1,
                                     Append(unpacked_operands, u.v), rewritten_ops))
    ELSE IF operands[i].k = "list"
    THEN IF operands[i].ops = <<>>
         THEN [exc |-> "IndexError", operands |-> unpacked_operands,
               rewritten_ops |-> rewritten_ops]
         ELSE IF ~HasResult(h, operands[i].ops[Len(operands[i].ops)])
         THEN [exc |-> "AssertionError", operands |-> unpacked_operands,
               rewritten_ops |-> rewritten_ops]
         ELSE Let(Unpack_value(h,
                      h.ops[operands[i].ops[Len(operands[i].ops)]].results.items[1], env),
                  LAMBDA u :
                    IF u.exc # NoExc
                    THEN [exc |-> u.exc, operands |-> unpacked_operands,
                          rewritten_ops |->
                              Unpack_prepend(operands[i].ops, Len(operands[i].ops),
                                             rewritten_ops)]
                    ELSE Unpack_loop(h, operands, env, i + 1,
                                     Append(unpacked_operands, u.v),
                                     Unpack_prepend(operands[i].ops, Len(operands[i].ops),
                                                    rewritten_ops)))
    ELSE Let(Unpack_value(h, operands[i], env),
             LAMBDA u :
               IF u.exc # NoExc
               THEN [exc |-> u.exc, operands |-> unpacked_operands,
                     rewritten_ops |-> rewritten_ops]
               ELSE Unpack_loop(h, operands, env, i + 1,
                                Append(unpacked_operands, u.v), rewritten_ops))

\* _unpack_operands (682-718); env is optional
unpack_operands(h, operands, env) ==
    Unpack_loop(h, operands, IF env.some THEN env.v ELSE EmptyDict, 1, <<>>, <<>>)

\* new_op (606-633); every argument but op_type is optional
new_op(h, op_type, operands, result_types, attributes, successors, regions) ==
    Let(unpack_operands(h, IF operands.some THEN operands.v ELSE <<>>, None),
        LAMBDA u :
          IF u.exc # NoExc THEN EOut(h, None, u.exc, <<>>)
          ELSE Let(IOp_get(h, ClassName(op_type), op_type, u.operands,
                           IF result_types.some THEN result_types.v ELSE <<>>,
                           IF attributes.some THEN attributes.v ELSE {},
                           IF successors.some THEN successors.v ELSE <<>>,
                           IF regions.some THEN regions.v ELSE <<>>),
                   LAMBDA c : EOut(c.h, None, NoExc, Append(u.rewritten_ops, c.ret))))

\* a from_op that leaves env as it was
FromOp_results_skip(h, old_op, op, env, i) == [exc |-> NoExc, env |-> env]

\* the loop at the end of from_op (676-678): env[old_op.results[idx]] = result
RECURSIVE FromOp_results(_, _, _, _, _)
FromOp_results(h, old_op, op, env, i) ==
    IF i > Len(h.ops[op].results.items) THEN [exc |-> NoExc, env |-> env]
    ELSE IF i > Len(h.ops[old_op].results.items) THEN [exc |-> "IndexError", env |-> env]
    ELSE FromOp_results(h, old_op, op,
                        Put(env, VKey(h.ops[old_op].results.items[i]),
                            h.ops[op].results.items[i]),
                        i + 1)

\* a from_op that builds a new OpData record whether attributes are given
\* or not
from_op_copy(h, old_op, operands, result_types, attributes, successors, regions, env) ==
    Let(unpack_operands(h, IF operands.some THEN operands.v
                           ELSE h.ops[old_op].operands.items, env),
        LAMBDA u :
          IF u.exc # NoExc THEN EOut(h, env, u.exc, <<>>)
          ELSE Let(IOp_get(h, h.datas[h.ops[old_op].op_data].name,
                           h.datas[h.ops[old_op].op_data].op_type, u.operands,
                           IF result_types.some THEN result_types.v
                           ELSE [i \in 1..Len(h.ops[old_op].results.items) |->
                                    h.ops[old_op].results.items[i].typ],
                           IF attributes.some THEN attributes.v
                           ELSE h.datas[h.ops[old_op].op_data].attributes,
                           IF successors.some THEN successors.v
                           ELSE h.ops[old_op].successors.items,
                           IF regions.some THEN regions.v
                           ELSE h.ops[old_op].regions.items),
                   LAMBDA c :
                     IF ~env.some
                     THEN EOut(c.h, env, NoExc, Append(u.rewritten_ops, c.ret))
                     ELSE Let(FromOp_results(c.h, old_op, c.ret, env.v, 1),
                              LAMBDA f : EOut(c.h, Some(f.env), f.exc,
                                              IF f.exc = NoExc
                                              THEN Append(u.rewritten_ops, c.ret)
                                              ELSE <<>>))))

\* from_op (636-679)
from_op(h, old_op, operands, result_types, attributes, successors, regions, env) ==
    Let(unpack_operands(h, IF operands.some THEN operands.v
                           ELSE h.ops[old_op].operands.items, env),
        LAMBDA u :
          IF u.exc # NoExc THEN EOut(h, env, u.exc, <<>>)
          ELSE Let(IF attributes.some
                   THEN IOp_get(h, h.datas[h.ops[old_op].op_data].name,
                                h.datas[h.ops[old_op].op_data].op_type, u.operands,
                                IF result_types.some THEN result_types.v
                                ELSE [i \in 1..Len(h.ops[old_op].results.items) |->
                                         h.ops[old_op].results.items[i].typ],
                                attributes.v,
                                IF successors.some THEN successors.v
                                ELSE h.ops[old_op].successors.items,
                                IF regions.some THEN regions.v
                                ELSE h.ops[old_op].regions.items)
                   ELSE IOp_init(h, h.ops[old_op].op_data, u.operands,
                                IF result_types.some THEN result_types.v
                                ELSE [i \in 1..Len(h.ops[old_op].results.items) |->
                                         h.ops[old_op].results.items[i].typ],
                                IF successors.some THEN successors.v
                                ELSE h.ops[old_op].successors.items,
                                IF regions.some THEN regions.v
                                ELSE h.ops[old_op].regions.items),
                   LAMBDA c :
                     IF ~env.some
                     THEN EOut(c.h, env, NoExc, Append(u.rewritten_ops, c.ret))
                     ELSE Let(FromOp_results(c.h, old_op, c.ret, env.v, 1),
                              LAMBDA f : EOut(c.h, Some(f.env), f.exc,
                                              IF f.exc = NoExc
                                              THEN Append(u.rewritten_ops, c.ret)
                                              ELSE <<>>))))

OperandsInEnv_always(h, op, env) == TRUE

\* "for operand in op.operands: if operand in env" (276-279, 302-304)
OperandsInEnv(h, op, env) ==
    \E i \in 1..Len(h.ops[op].operands.items) :
        Has(env, VKey(h.ops[op].operands.items[i]))

\* a check that finds every block in need of a rebuild
subst_necessary_always(h, block, env) == TRUE

\* block.walk(subst_necessary) (275-282)
subst_necessary(h, block, env) ==
    \E k \in 1..Len(IBlock_walk(h, block)) : OperandsInEnv(h, IBlock_walk(h, block)[k], env)

\* new_operands of substitute_if_required (301-307)
SubstOperands(h, op, env) ==
    [i \in 1..Len(h.ops[op].operands.items) |->
        IF Has(env, VKey(h.ops[op].operands.items[i]))
        THEN env[VKey(h.ops[op].operands.items[i])]
        ELSE h.ops[op].operands.items[i]]

ROut(h, env, e, ret, req) == [h |-> h, env |-> env, exc |-> e, ret |-> ret, req |-> req]

RECURSIVE IBlock_from_iblock(_, _, _, _)
RECURSIVE substitute_if_required(_, _, _)
RECURSIVE Subst_blocks(_, _, _, _, _, _)
RECURSIVE Subst_regions(_, _, _, _, _, _)
RECURSIVE FromIBlock_ops(_, _, _, _, _)

\* the blocks loop of substitute_if_required (268-292) for one region, from
\* block i on; req is region_substitution_required
Subst_blocks(h, region, env, i, new_blocks, req) ==
    IF i > Len(h.regions[region].blocks.items)
    THEN ROut(h, env, NoExc, new_blocks, req)
    ELSE IF subst_necessary(h, h.regions[region].blocks.items[i], env)
    THEN Let(IBlock_from_iblock(h,
                 h.blocks[h.regions[region].blocks.items[i]].ops.items,
                 h.regions[region].blocks.items[i], Some(env)),
             LAMBDA r :
               IF r.exc # NoExc THEN ROut(r.h, r.env, r.exc, new_blocks, TRUE)
               ELSE Subst_blocks(r.h, region, r.env, i + 1,
                                 Append(new_blocks, r.ret), TRUE))
    ELSE Subst_blocks(h, region, env, i + 1,
                      Append(new_blocks, h.regions[region].blocks.items[i]), req)

\* the regions loop (265-297), from region i on; req is substitution_required
Subst_regions(h, op, env, i, new_regions, req) ==
    IF i > Len(h.ops[op].regions.items)
    THEN ROut(h, env, NoExc, new_regions, req)
    ELSE Let(Subst_blocks(h, h.ops[op].regions.items[i], env, 1, <<>>, FALSE),
             LAMBDA r :
               IF r.exc # NoExc THEN ROut(r.h, r.env, r.exc, new_regions, TRUE)
               ELSE IF r.req
               THEN Let(IRegion_init(r.h, r.ret),
                        LAMBDA g : Subst_regions(g.h, op, r.env, i + 1,
                                                 Append(new_regions, g.ret), TRUE))
               ELSE Subst_regions(r.h, op, r.env, i + 1,
                                  Append(new_regions, h.ops[op].regions.items[i]), req))

\* substitute_if_required (262-318)
substitute_if_required(h, op, env) ==
    Let(Subst_regions(h, op, env, 1, <<>>, FALSE),
        LAMBDA r :
          IF r.exc # NoExc THEN EOut(r.h, r.env, r.exc, 0)
          ELSE IF r.req \/ OperandsInEnv(r.h, op, r.env)
          THEN Let(from_op(r.h, op, Some(SubstOperands(r.h, op, r.env)), None, None,
                           None, Some(r.ret), Some(r.env)),
                   LAMBDA f :
                     IF f.exc # NoExc THEN EOut(f.h, f.env.v, f.exc, 0)
                     ELSE IF Len(f.ret) # 1 THEN EOut(f.h, f.env.v, "AssertionError", 0)
                     ELSE EOut(f.h, f.env.v, NoExc, f.ret[Len(f.ret)]))
          ELSE EOut(r.h, r.env, NoExc, op))

\* the block_args loop of from_iblock (252-260), from argument i on
RECURSIVE FromIBlock_args(_, _, _, _, _)
FromIBlock_args(h, old_block, env, i, block_args) ==
    IF i > Len(h.blocks[old_block].args.items)
    THEN EOut(h, env, NoExc, block_args)
    ELSE Let(IBlockArg_new(h, h.blocks[old_block].args.items[i].typ, i - 1),
             LAMBDA a :
               FromIBlock_args(a.h, old_block,
                               Put(env, VKey(h.blocks[old_block].args.items[i]), a.ret),
                               i + 1, Append(block_args, a.ret)))

\* ops = [substitute_if_required(op) for op in ops] (320)
FromIBlock_ops(h, ops, env, i, acc) ==
    IF i > Len(ops) THEN EOut(h, env, NoExc, acc)
    ELSE Let(substitute_if_required(h, ops[i], env),
             LAMBDA r :
               IF r.exc # NoExc THEN EOut(r.h, r.env, r.exc, acc)
               ELSE FromIBlock_ops(r.h, ops, r.env, i + 1, Append(acc, r.ret)))

\* IBlock.from_iblock (236-323); env is optional
IBlock_from_iblock(h, ops, old_block, env) ==
    Let(FromIBlock_args(h, old_block, IF env.some THEN env.v ELSE EmptyDict, 1, <<>>),
        LAMBDA a :
          Let(FromIBlock_ops(a.h, ops, a.env, 1, <<>>),
              LAMBDA r :
                IF r.exc # NoExc THEN EOut(r.h, r.env, r.exc, 0)
                ELSE Let(IBlock_init(r.h, [tag |-> "args", items |-> a.ret], r.ret),
                         LAMBDA b : EOut(b.h, r.env, b.exc, b.ret))))

(***************************************************************************)
(* The IR machine.  A mutable module is built operation by operation, is   *)
(* converted with get_immutable_copy, and an operation of the immutable    *)
(* copy is converted back with get_mutable_copy.                           *)
(***************************************************************************)
ArgLists == {<<>>, <<"i32", "i64">>}
NestedArgLists == {<<"i32">>}
NoOut == Out(EmptyMHeap, EmptyDict, EmptyDict, NoExc, 0)
NoReb == [kind |-> "none", block |-> 0, out |-> EOut(EmptyIHeap, EmptyDict, NoExc, 0)]

\* no traversal yet; mode tells which modules are built: those of the
\* conversions ("ir") or those of the traversals ("walk")
NoWalk(mode) ==
    [mode |-> mode, kind |-> "none", target |-> 0,
     visited |-> <<>>, abortable |-> [stops \in {} |-> WOut(<<>>, TRUE)]]

\* no nested call yet, on a given heap
NoCall == [kind |-> "none", operands |-> <<>>, exc |-> NoExc, ret |-> <<>>]
NestOn(h) == [h |-> h, lists |-> <<>>, refs |-> {}, last |-> NoCall]
NoNest == NestOn(EmptyIHeap)

IRIdle ==
    /\ irpc = "idle"
    /\ mh = EmptyMHeap
    /\ cur = 0
    /\ curN = 0
    /\ conv = NoOut
    /\ copy = [target |-> 0, out |-> NoOut]
    /\ reb = NoReb
    /\ walked = NoWalk("ir")
    /\ nest = NoNest

\* a module: one operation with one region with one block
NewModule(arg_types) ==
    LET b == Block_from_arg_types(EmptyMHeap, arg_types)
        r == Region_from_block_list(b.h, <<b.ret>>)
    IN  Operation_create(r.h, "Module", <<>>, <<>>, {}, <<>>, <<r.ret>>).h

IRInit ==
    /\ irpc = "build"
    /\ mh \in {NewModule(t) : t \in ArgLists}
    /\ cur = 1
    /\ curN = 0
    /\ conv = NoOut
    /\ copy = [target |-> 0, out |-> NoOut]
    /\ reb = NoReb
    /\ walked = NoWalk("ir")
    /\ nest = NoNest

\* the modules built for the traversals
MaxWalkOps == 3

WalkInit ==
    /\ irpc = "build"
    /\ mh = NewModule(<<"i32">>)
    /\ cur = 1
    /\ curN = 0
    /\ conv = NoOut
    /\ copy = [target |-> 0, out |-> NoOut]
    /\ reb = NoReb
    /\ walked = NoWalk("walk")
    /\ nest = NoNest

Targets == {cur} \cup (IF curN = 0 THEN {} ELSE {curN})
CanAdd ==
    /\ irpc = "build"
    /\ Len(mh.ops) - 1 < (IF walked.mode = "walk" THEN MaxWalkOps ELSE MaxOps)

\* a block without arguments is inserted at the front or at the end of the
\* module's region, once the block inserted before it holds an operation
InsertBlock ==
    \E front \in BOOLEAN :
        LET b == Block_from_arg_types(mh, <<>>)
        IN  /\ irpc = "build"
            /\ Len(mh.regions[1].blocks) < MaxBlocks
            /\ mh.blocks[cur].ops # <<>>
            /\ mh' = [b.h EXCEPT !.regions[1].blocks =
                          IF front THEN <<b.ret>> \o @ ELSE Append(@, b.ret)]
            /\ cur' = b.ret
            /\ UNCHANGED <<irpc, curN, conv, copy, reb, walked, nest, notIR>>

\* an operation with one result and no operand
AddConst ==
    \E target \in Targets :
        LET c == Operation_create(mh, "Const", <<>>, <<"i32">>,
                                  {<<"value", Len(mh.ops)>>}, <<>>, <<>>)
        IN  /\ CanAdd
            /\ mh' = Block_add_op(c.h, target, c.ret)
            /\ UNCHANGED <<irpc, cur, curN, conv, copy, reb, walked, nest, notIR>>

\* an operation with one operand, any value of the module, and one result
AddUse ==
    \E target \in Targets, v \in MResults(mh) \cup MArgs(mh) :
        LET c == Operation_create(mh, "Use", <<v>>, <<v.typ>>, {}, <<>>, <<>>)
        IN  /\ CanAdd
            /\ mh' = Block_add_op(c.h, target, c.ret)
            /\ UNCHANGED <<irpc, cur, curN, conv, copy, reb, walked, nest, notIR>>

\* an operation with one successor, any block of the module
AddBr ==
    \E target \in Targets, successor \in 1..Len(mh.blocks) :
        LET c == Operation_create(mh, "Br", <<>>, <<>>, {}, <<successor>>, <<>>)
        IN  /\ CanAdd
            /\ mh' = Block_add_op(c.h, target, c.ret)
            /\ UNCHANGED <<irpc, cur, curN, conv, copy, reb, walked, nest, notIR>>

\* an operation with a region of one block, and any operands
AddScope ==
    \E target \in Targets,
       t \in (IF walked.mode = "walk" THEN {<<>>} ELSE NestedArgLists),
       operands \in {<<>>} \cup {<<v>> : v \in (IF walked.mode = "walk" THEN {}
                                               ELSE MResults(mh) \cup MArgs(mh))} :
        LET b == Block_from_arg_types(mh, t)
            r == Region_from_block_list(b.h, <<b.ret>>)
            c == Operation_create(r.h, "Scope", operands, <<>>, {}, <<>>, <<r.ret>>)
        IN  /\ CanAdd
            /\ mh' = Block_add_op(c.h, target, c.ret)
            /\ curN' = b.ret
            /\ UNCHANGED <<irpc, cur, conv, copy, reb, walked, nest, notIR>>

\* get_immutable_copy(module)
Convert ==
    /\ irpc = "build"
    /\ conv' = get_immutable_copy(mh, EmptyIHeap, 1)
    /\ irpc' = "imm"
    /\ UNCHANGED <<mh, cur, curN, copy, reb, walked, nest, notIR>>

\* op.get_mutable_copy() on an operation of the immutable copy, no dictionary given
Copy ==
    \E target \in 1..Len(conv.h.ops) :
        /\ irpc = "imm"
        /\ conv.exc = NoExc
        /\ copy' = [target |-> target,
                    out |-> IOp_get_mutable_copy(conv.h, EmptyMHeap, target,
                                                 EmptyDict, EmptyDict)]
        /\ irpc' = "copied"
        /\ UNCHANGED <<mh, cur, curN, conv, reb, walked, nest, notIR>>

\* IBlock.from_iblock(B.ops, B) on a block of the immutable copy, no env given
Rebuild ==
    \E block \in 1..Len(conv.h.blocks) :
        /\ irpc = "imm"
        /\ conv.exc = NoExc
        /\ reb' = [kind |-> "from_iblock", block |-> block,
                   out |-> IBlock_from_iblock(conv.h, conv.h.blocks[block].ops.items,
                                              block, None)]
        /\ irpc' = "rebuilt"
        /\ UNCHANGED <<mh, cur, curN, conv, copy, walked, nest, notIR>>

\* what new_op can be given as its operands: nothing, a result of an
\* operation of the immutable copy, or such an operation itself
NewOpOperands ==
    {None}
      \cup {Some(<<OpRef(o)>>) : o \in 1..Len(conv.h.ops)}
      \cup {Some(<<conv.h.ops[o].results.items[1]>>) :
                o \in {x \in 1..Len(conv.h.ops) : HasResult(conv.h, x)}}

\* new_op(Use, operands, [i32])
NewOp ==
    \E operands \in NewOpOperands :
        /\ irpc = "imm"
        /\ conv.exc = NoExc
        /\ reb' = [kind |-> "new_op", block |-> 0,
                   out |-> new_op(conv.h, "Use", operands, Some(<<"i32">>),
                                  None, None, None)]
        /\ irpc' = "rebuilt"
        /\ UNCHANGED <<mh, cur, curN, conv, copy, walked, nest, notIR>>

\* IBlock(list(B.args), []) on a block of the immutable copy: a block built
\* from a sequence of existing block arguments
NewBlockFromArgs ==
    \E block \in 1..Len(conv.h.blocks) :
        /\ irpc = "imm"
        /\ conv.exc = NoExc
        /\ reb' = [kind |-> "iblock", block |-> block,
                   out |-> Let(IBlock_init(conv.h,
                                   [tag |-> "args",
                                    items |-> conv.h.blocks[block].args.items], <<>>),
                               LAMBDA b : EOut(b.h, EmptyDict, b.exc, b.ret))]
        /\ irpc' = "rebuilt"
        /\ UNCHANGED <<mh, cur, curN, conv, copy, walked, nest, notIR>>

\* IBlock.from_iblock(B.ops, B, env) on a block of the immutable copy, with
\* an empty dictionary as env
RebuildWithEnv ==
    \E block \in 1..Len(conv.h.blocks) :
        /\ irpc = "imm"
        /\ conv.exc = NoExc
        /\ reb' = [kind |-> "from_iblock_env", block |-> block,
                   out |-> IBlock_from_iblock(conv.h, conv.h.blocks[block].ops.items,
                                              block, Some(EmptyDict))]
        /\ irpc' = "rebuilt"
        /\ UNCHANGED <<mh, cur, curN, conv, copy, walked, nest, notIR>>

\* a Scope operation whose region has two blocks; operations are added to
\* the first of them
AddScopeOfTwo ==
    \E target \in Targets, t \in NestedArgLists :
        LET b1 == Block_from_arg_types(mh, t)
            b2 == Block_from_arg_types(b1.h, t)
            r == Region_from_block_list(b2.h, <<b1.ret, b2.ret>>)
            c == Operation_create(r.h, "Scope", <<>>, <<>>, {}, <<>>, <<r.ret>>)
        IN  /\ CanAdd
            /\ walked.mode # "walk"
            /\ mh' = Block_add_op(c.h, target, c.ret)
            /\ curN' = b1.ret
            /\ UNCHANGED <<irpc, cur, conv, copy, reb, walked, nest, notIR>>

\* IBlock(list(B.args), list(reversed(B.ops))) on a block of the immutable
\* copy that has arguments and at least two operations: the constructor
\* takes any sequence of operations, so this block may hold an operation
\* ahead of the one whose result it uses.  Done once: afterwards two blocks
\* share their arguments.
ReorderBlock ==
    /\ irpc = "imm"
    /\ conv.exc = NoExc
    /\ \A b1 \in 1..Len(conv.h.blocks) : \A b2 \in 1..Len(conv.h.blocks) :
           (b1 # b2 /\ conv.h.blocks[b1].args.items # <<>>)
               => conv.h.blocks[b1].args.items # conv.h.blocks[b2].args.items
    /\ \E block \in 1..Len(conv.h.blocks) :
           /\ conv.h.blocks[block].args.items # <<>>
           /\ Len(conv.h.blocks[block].ops.items) >= 2
           /\ conv' = [conv EXCEPT !.h =
                          IBlock_init(conv.h,
                              [tag |-> "args",
                               items |-> conv.h.blocks[block].args.items],
                              Reversed(conv.h.blocks[block].ops.items)).h]
    /\ UNCHANGED <<irpc, mh, cur, curN, copy, reb, walked, nest, notIR>>

RebuildNext ==
    \/ InsertBlock
    \/ AddConst
    \/ AddUse
    \/ AddScope
    \/ AddScopeOfTwo
    \/ Convert
    \/ ReorderBlock
    \/ RebuildWithEnv

\* a module without branches is built and converted
ConvertNext ==
    \/ InsertBlock
    \/ AddConst
    \/ AddUse
    \/ AddScope
    \/ AddScopeOfTwo
    \/ Convert

BlockArgsNext ==
    \/ InsertBlock
    \/ AddConst
    \/ AddUse
    \/ AddScope
    \/ Convert
    \/ Rebuild
    \/ NewBlockFromArgs

\* the attributes from_op is given: none, an empty dictionary, or one entry
GivenAttributes(choice) ==
    CASE choice = "none" -> None
      [] choice = "empty" -> Some({})
      [] choice = "value" -> Some({<<"value", 0>>})

\* the arguments from_op is called with besides old_op: each is left out or
\* given; operands are the module's block arguments, the results are of
\* another type, successors and regions are emptied
FromOpArgs ==
    [operands : {None, Some(<<>>)} \cup
                {Some(<<conv.h.blocks[1].args.items[i]>>) :
                    i \in 1..Len(conv.h.blocks[1].args.items)},
     result_types : {None, Some(<<"i64">>)},
     attributes : {"none", "empty", "value"},
     successors : {None, Some(<<>>)},
     regions : {None, Some(<<>>)}]

\* from_op(old_op, ...) on an operation of the immutable copy, no env given
FromOp ==
    /\ irpc = "imm"
    /\ conv.exc = NoExc
    /\ \E old_op \in 1..Len(conv.h.ops), a \in FromOpArgs :
          reb' = [kind |-> "from_op", block |-> old_op, args |-> a,
                  out |-> from_op(conv.h, old_op, a.operands, a.result_types,
                                  GivenAttributes(a.attributes), a.successors, a.regions, None)]
    /\ irpc' = "rebuilt"
    /\ UNCHANGED <<mh, cur, curN, conv, copy, walked, nest, notIR>>

FromOpNext ==
    \/ AddConst
    \/ AddUse
    \/ AddBr
    \/ AddScope
    \/ Convert
    \/ FromOp
    \/ Rebuild

\* most calls of new_op and from_op in one nesting
MaxNest == 3

\* the nesting starts on a heap with one operation of the module being
\* rewritten, a constant
NestInit ==
    /\ irpc = "nest"
    /\ mh = EmptyMHeap
    /\ cur = 0
    /\ curN = 0
    /\ conv = NoOut
    /\ copy = [target |-> 0, out |-> NoOut]
    /\ reb = NoReb
    /\ walked = NoWalk("ir")
    /\ nest = NestOn(IOp_get(EmptyIHeap, ClassName("Const"), "Const", <<>>, <<"i32">>,
                             {<<"value", 1>>}, <<>>, <<>>).h)

\* what a call can be given as one operand: a list returned by an earlier
\* call, the operation of the module, or the operation built last
NestOperand ==
    {ListRef(nest.lists[i]) : i \in 1..Len(nest.lists)}
      \cup {OpRef(1), OpRef(Len(nest.h.ops))}

\* up to two operands
NestOperands ==
    {<<>>} \cup {<<x>> : x \in NestOperand}
           \cup {<<x, y>> : x \in NestOperand, y \in NestOperand}

\* the newly built operations among the operands given as operations
NestRefs(operands) ==
    {operands[i].id : i \in {j \in 1..Len(operands) : operands[j].k = "op"}} \ {1}

\* the state after a call returned out
Nested(kind, operands, out) ==
    IF out.exc # NoExc
    THEN [nest EXCEPT !.last = [kind |-> kind, operands |-> operands,
                                exc |-> out.exc, ret |-> <<>>]]
    ELSE [h |-> out.h,
          lists |-> Append(nest.lists, out.ret),
          refs |-> nest.refs \cup NestRefs(operands),
          last |-> [kind |-> kind, operands |-> operands, exc |-> NoExc,
                    ret |-> out.ret]]

\* new_op(Use, operands, [i32]) inside a nesting
NestNewOp ==
    /\ irpc = "nest"
    /\ Len(nest.lists) < MaxNest
    /\ \E operands \in NestOperands :
          nest' = Nested("new_op", operands,
                         new_op(nest.h, "Use", Some(operands), Some(<<"i32">>),
                                None, None, None))
    /\ UNCHANGED <<irpc, mh, cur, curN, conv, copy, reb, walked, notIR>>

\* from_op(old_op, operands) on the operation of the module, inside a nesting
NestFromOp ==
    /\ irpc = "nest"
    /\ Len(nest.lists) < MaxNest
    /\ \E operands \in NestOperands :
          nest' = Nested("from_op", operands,
                         from_op(nest.h, 1, Some(operands), None, None, None, None,
                                 None))
    /\ UNCHANGED <<irpc, mh, cur, curN, conv, copy, reb, walked, notIR>>

NestNext ==
    \/ NestNewOp
    \/ NestFromOp

\* what a traversal can start from: an operation, a block or a region of
\* the immutable copy
WalkTargets ==
    ({"op"} \X (1..Len(conv.h.ops)))
      \cup ({"block"} \X (1..Len(conv.h.blocks)))
      \cup ({"region"} \X (1..Len(conv.h.regions)))

\* the visitors: one that never stops, for every operation one that stops
\* on it, and for every result the one of value_used_inside
Visitors ==
    {{}} \cup {{o} : o \in 1..Len(conv.h.ops)}
         \cup {UsersOfValue(conv.h, conv.h.ops[o].results.items[1]) :
                  o \in {x \in 1..Len(conv.h.ops) : HasResult(conv.h, x)}}

\* walk(fun) on an operation, a block or a region of the immutable copy, and
\* walk_abortable(fun) on it with each of the visitors
Walk ==
    /\ irpc = "imm"
    /\ conv.exc = NoExc
    /\ walked.mode = "walk"
    /\ \E t \in WalkTargets :
          walked' = [mode |-> "walk", kind |-> t[1], target |-> t[2],
                     visited |-> CASE t[1] = "op" -> IOp_walk(conv.h, t[2])
                                   [] t[1] = "block" -> IBlock_walk(conv.h, t[2])
                                   [] t[1] = "region" -> IRegion_walk(conv.h, t[2]),
                     abortable |-> [stops \in Visitors |->
                        CASE t[1] = "op" -> IOp_walk_abortable(conv.h, t[2], stops)
                          [] t[1] = "block" -> IBlock_walk_abortable(conv.h, t[2], stops)
                          [] t[1] = "region" -> IRegion_walk_abortable(conv.h, t[2], stops)]]
    /\ irpc' = "walked"
    /\ UNCHANGED <<mh, cur, curN, conv, copy, reb, nest, notIR>>

WalkNext ==
    \/ InsertBlock
    \/ AddConst
    \/ AddUse
    \/ AddScope
    \/ Convert
    \/ Walk

IRNext ==
    \/ Rebuild
    \/ NewOp
    \/ InsertBlock
    \/ AddConst
    \/ AddUse
    \/ AddBr
    \/ AddScope
    \/ Convert
    \/ Copy

(***************************************************************************)
(* Structural positions in a mutable module.                               *)
(***************************************************************************)
\* the blocks an operation owns, region by region
MOwnBlocks(m, op) ==
    Concat([i \in 1..Len(m.ops[op].regions) |-> m.regions[m.ops[op].regions[i]].blocks])

\* the operations directly in the blocks an operation owns
MChildren(m, op) ==
    LET bs == MOwnBlocks(m, op)
    IN  Concat([i \in 1..Len(bs) |-> m.blocks[bs[i]].ops])

\* the operations below todo, each before the operations nested in it
RECURSIVE MWalk(_, _)
MWalk(m, todo) ==
    IF todo = <<>> THEN <<>>
    ELSE <<Head(todo)>> \o MWalk(m, MChildren(m, Head(todo)) \o Tail(todo))

\* the blocks of the operations of walk, in the order of walk
MWalkBlocks(m, walk) == Concat([i \in 1..Len(walk) |-> MOwnBlocks(m, walk[i])])

\* a module with every operation, block and value named by its position:
\* the module's operations in walk order, each with its kind, name,
\* attributes, result types, operands, successors and regions
Canon(m, root) ==
    LET walk == MWalk(m, <<root>>)
        blocks == MWalkBlocks(m, walk)
        PosOp(o) == IndexOf(walk, o)
        PosBlock(b) == IndexOf(blocks, b)
        PosVal(v) == IF v.k = "res" THEN <<"res", PosOp(v.id), v.idx>>
                     ELSE <<"arg", PosBlock(v.id), v.idx>>
        CanonBlock(b) == [arg_types |-> m.blocks[b].arg_types,
                          ops |-> [i \in 1..Len(m.blocks[b].ops) |->
                                      PosOp(m.blocks[b].ops[i])]]
        CanonRegion(r) == [i \in 1..Len(m.regions[r].blocks) |->
                              CanonBlock(m.regions[r].blocks[i])]
    IN  [p \in 1..Len(walk) |->
            LET o == m.ops[walk[p]]
            IN  [op_type |-> o.op_type,
                 name |-> ClassName(o.op_type),
                 attributes |-> o.attributes,
                 result_types |-> o.result_types,
                 operands |-> [i \in 1..Len(o.operands) |-> PosVal(o.operands[i])],
                 successors |-> [i \in 1..Len(o.successors) |->
                                    PosBlock(o.successors[i])],
                 regions |-> [i \in 1..Len(o.regions) |-> CanonRegion(o.regions[i])]]]

\* the block that holds an operation, and the operation that owns a block
\* (0 when there is none)
MBlockOf(m, op) ==
    IF \E b \in 1..Len(m.blocks) : IndexOf(m.blocks[b].ops, op) > 0
    THEN CHOOSE b \in 1..Len(m.blocks) : IndexOf(m.blocks[b].ops, op) > 0 ELSE 0

MOwnerOf(m, b) ==
    IF \E o \in 1..Len(m.ops) : IndexOf(MOwnBlocks(m, o), b) > 0
    THEN CHOOSE o \in 1..Len(m.ops) : IndexOf(MOwnBlocks(m, o), b) > 0 ELSE 0

\* the blocks around an operation, innermost first
RECURSIVE MEnclosing(_, _)
MEnclosing(m, op) ==
    IF MBlockOf(m, op) = 0 THEN <<>>
    ELSE <<MBlockOf(m, op)>> \o MEnclosing(m, MOwnerOf(m, MBlockOf(m, op)))

\* v is an argument of a block around op, or a result of an operation that
\* comes before op (or before an operation op is nested in) in its block
MDefinedBefore(m, op, v) ==
    LET around == MEnclosing(m, op)
    IN  IF v.k = "arg" THEN IndexOf(around, v.id) > 0
        ELSE \E b \in {around[i] : i \in 1..Len(around)} :
                \E p, q \in 1..Len(m.blocks[b].ops) :
                    /\ p < q
                    /\ m.blocks[b].ops[p] = v.id
                    /\ IndexOf(MWalk(m, <<m.blocks[b].ops[q]>>), op) > 0

\* the blocks of the region that holds block b
MSiblings(m, b) ==
    UNION {{m.regions[r].blocks[i] : i \in 1..Len(m.regions[r].blocks)} :
              r \in {x \in 1..Len(m.regions) : IndexOf(m.regions[x].blocks, b) > 0}}

\* every operand is defined before its use, and every successor is a block
\* of the region the operation is in
WellFormed(m) ==
    \A op \in 2..Len(m.ops) :
        /\ \A i \in 1..Len(m.ops[op].operands) :
              MDefinedBefore(m, op, m.ops[op].operands[i])
        /\ \A i \in 1..Len(m.ops[op].successors) :
              m.ops[op].successors[i] \in MSiblings(m, MBlockOf(m, op))

(***************************************************************************)
(* The constraint matcher (sasha_rewrite_pattern.py).                      *)
(*                                                                         *)
(* A match context is a dictionary from variable names to values: an       *)
(* operation Val("op", id, 0, ""), an SSA value, or an attribute           *)
(* Val("attr", 0, 0, data).  Operations and SSA values are equal when they *)
(* are the same object, attributes when they hold the same data.           *)
(* A constraint is [c, x, y, n]: its class, the variable it reads, the     *)
(* variable it binds and its name, type or attribute argument.             *)
(***************************************************************************)
OpVal(op) == Val("op", op, 0, "")
AttrVal(data) == Val("attr", 0, 0, data)

\* the classes an operation class is a subclass of, itself included
Bases(cls) ==
    CASE cls = "Addi" -> {"Addi", "BinaryOperation", "Operation"}
      [] cls = "Const" -> {"Const", "Operation"}
      [] cls = "Module" -> {"Module", "Operation"}
      [] OTHER -> {cls, "Operation"}

\* isinstance(val, type)
IsInstance_exact(m, v, type) == v.k = "op" /\ type = m.ops[v.id].op_type

IsInstance(m, v, type) == v.k = "op" /\ type \in Bases(m.ops[v.id].op_type)

\* the operations offered to the matcher: a block with one argument holding
\*   1: Const 1    2: Const 2    3: Addi(%1, %1)    4: Addi(%1, %2)
\*   5: Addi(%arg0, %1)
\* and 6, the module that owns the block
MatchHeap ==
    LET b == Block_from_arg_types(EmptyMHeap, <<"i32">>)
        c1 == Operation_create(b.h, "Const", <<>>, <<"i32">>, {<<"value", "1">>},
                               <<>>, <<>>)
        c2 == Operation_create(c1.h, "Const", <<>>, <<"i32">>, {<<"value", "2">>},
                               <<>>, <<>>)
        r1 == Val("res", c1.ret, 0, "i32")
        r2 == Val("res", c2.ret, 0, "i32")
        a1 == Operation_create(c2.h, "Addi", <<r1, r1>>, <<"i32">>, {}, <<>>, <<>>)
        a2 == Operation_create(a1.h, "Addi", <<r1, r2>>, <<"i32">>, {}, <<>>, <<>>)
        a3 == Operation_create(a2.h, "Addi", <<Val("arg", b.ret, 0, "i32"), r1>>,
                               <<"i32">>, {}, <<>>, <<>>)
        filled == Block_add_op(Block_add_op(Block_add_op(Block_add_op(Block_add_op(
                      a3.h, b.ret, c1.ret), b.ret, c2.ret), b.ret, a1.ret),
                      b.ret, a2.ret), b.ret, a3.ret)
        r == Region_from_block_list(filled, <<b.ret>>)
    IN  Operation_create(r.h, "Module", <<>>, <<>>, {}, <<>>, <<r.ret>>).h

MatchOps == 1..Len(MatchHeap.ops)

\* getattr(obj, name): the named operand, result or attribute of an
\* operation, and the op of an OpResult
GetAttr(m, v, name) ==
    IF v.k = "op" /\ name = "lhs" /\ "BinaryOperation" \in Bases(m.ops[v.id].op_type)
    THEN [exc |-> NoExc, v |-> m.ops[v.id].operands[1]]
    ELSE IF v.k = "op" /\ name = "rhs"
            /\ "BinaryOperation" \in Bases(m.ops[v.id].op_type)
    THEN [exc |-> NoExc, v |-> m.ops[v.id].operands[2]]
    ELSE IF v.k = "op" /\ name = "result" /\ m.ops[v.id].result_types # <<>>
    THEN [exc |-> NoExc, v |-> Val("res", v.id, 0, m.ops[v.id].result_types[1])]
    ELSE IF v.k = "op" /\ \E p \in m.ops[v.id].attributes : p[1] = name
    THEN [exc |-> NoExc,
          v |-> AttrVal((CHOOSE p \in m.ops[v.id].attributes : p[1] = name)[2])]
    ELSE IF v.k = "res" /\ name = "op"
    THEN [exc |-> NoExc, v |-> OpVal(v.id)]
    ELSE [exc |-> "AttributeError", v |-> v]

\* Variable.get (43-44)
Variable_get(ctx, name) ==
    IF Has(ctx, name) THEN [exc |-> NoExc, v |-> ctx[name]]
    ELSE [exc |-> "KeyError", v |-> OpVal(0)]

Variable_set_overwrite(ctx, name, val) == [ok |-> TRUE, ctx |-> Put(ctx, name, val)]

\* Variable.set (46-51)
Variable_set(ctx, name, val) ==
    IF Has(ctx, name) THEN [ok |-> val = ctx[name], ctx |-> ctx]
    ELSE [ok |-> TRUE, ctx |-> Put(ctx, name, val)]

EqConstraint(lhs_var, rhs_var) == [c |-> "Eq", x |-> lhs_var, y |-> rhs_var, n |-> ""]
TypeConstraint(var, type) == [c |-> "Type", x |-> var, y |-> "", n |-> type]
AttributeValueConstraint(attr_var, attr) ==
    [c |-> "AttributeValue", x |-> attr_var, y |-> "", n |-> attr]
OperationAttributeConstraint(op_var, attr_name, attr_var) ==
    [c |-> "OperationAttribute", x |-> op_var, y |-> attr_var, n |-> attr_name]
OperationOperandConstraint(op_var, operand_name, operand_var) ==
    [c |-> "OperationOperand", x |-> op_var, y |-> operand_var, n |-> operand_name]
OperationResultConstraint(op_var, res_name, res_var) ==
    [c |-> "OperationResult", x |-> op_var, y |-> res_var, n |-> res_name]
OpResultOpConstraint(op_var, res_var) ==
    [c |-> "OpResultOp", x |-> op_var, y |-> res_var, n |-> ""]

\* what Constraint.match returns or raises, and the context it leaves
CR(ok, e, ctx) == [ok |-> ok, exc |-> e, ctx |-> ctx]

\* EqConstraint.match (81-83)
EqConstraint_match(m, c, ctx) ==
    IF Variable_get(ctx, c.x).exc # NoExc
    THEN CR(FALSE, Variable_get(ctx, c.x).exc, ctx)
    ELSE CR(Variable_set(ctx, c.y, Variable_get(ctx, c.x).v).ok, NoExc,
            Variable_set(ctx, c.y, Variable_get(ctx, c.x).v).ctx)

\* TypeConstraint.match (94-96)
TypeConstraint_match(m, c, ctx) ==
    IF Variable_get(ctx, c.x).exc # NoExc
    THEN CR(FALSE, Variable_get(ctx, c.x).exc, ctx)
    ELSE CR(IsInstance(m, Variable_get(ctx, c.x).v, c.n), NoExc, ctx)

\* AttributeValueConstraint.match (104-106)
AttributeValueConstraint_match(m, c, ctx) ==
    IF Variable_get(ctx, c.x).exc # NoExc
    THEN CR(FALSE, Variable_get(ctx, c.x).exc, ctx)
    ELSE CR(Variable_get(ctx, c.x).v = AttrVal(c.n), NoExc, ctx)

\* a_obj = var.get(ctx); b_obj = getattr(a_obj, name); return other.set(ctx, b_obj)
Project_match(m, c, name, ctx) ==
    IF Variable_get(ctx, c.x).exc # NoExc
    THEN CR(FALSE, Variable_get(ctx, c.x).exc, ctx)
    ELSE IF GetAttr(m, Variable_get(ctx, c.x).v, name).exc # NoExc
    THEN CR(FALSE, GetAttr(m, Variable_get(ctx, c.x).v, name).exc, ctx)
    ELSE CR(Variable_set(ctx, c.y, GetAttr(m, Variable_get(ctx, c.x).v, name).v).ok,
            NoExc,
            Variable_set(ctx, c.y, GetAttr(m, Variable_get(ctx, c.x).v, name).v).ctx)

\* OperationAttributeConstraint.match (115-118)
OperationAttributeConstraint_match(m, c, ctx) == Project_match(m, c, c.n, ctx)

\* OperationOperandConstraint.match (127-130)
OperationOperandConstraint_match(m, c, ctx) == Project_match(m, c, c.n, ctx)

\* OperationResultConstraint.match (139-142)
OperationResultConstraint_match(m, c, ctx) == Project_match(m, c, c.n, ctx)

\* OpResultOpConstraint.match (150-153)
OpResultOpConstraint_match(m, c, ctx) == Project_match(m, c, "op", ctx)

\* constraint.match(ctx), by the constraint's class
Constraint_match(m, c, ctx) ==
    CASE c.c = "Eq" -> EqConstraint_match(m, c, ctx)
      [] c.c = "Type" -> TypeConstraint_match(m, c, ctx)
      [] c.c = "AttributeValue" -> AttributeValueConstraint_match(m, c, ctx)
      [] c.c = "OperationAttribute" -> OperationAttributeConstraint_match(m, c, ctx)
      [] c.c = "OperationOperand" -> OperationOperandConstraint_match(m, c, ctx)
      [] c.c = "OperationResult" -> OperationResultConstraint_match(m, c, ctx)
      [] c.c = "OpResultOp" -> OpResultOpConstraint_match(m, c, ctx)

\* Query.root (167-170)
Query_root(root_type) ==
    [variables |-> <<"root">>, constraints |-> <<TypeConstraint("root", root_type)>>]

\* what Query.match did: kind "match" (it returned the dictionary match),
\* "none" (it returned None) or "exc" (it raised exc); ctx is the context it
\* left and passed the number of constraints that returned True
MOut(kind, e, match, ctx, passed) ==
    [kind |-> kind, exc |-> e, match |-> match, ctx |-> ctx, passed |-> passed]

NoMatch == MOut("idle", NoExc, EmptyDict, EmptyDict, 0)

\* ctx = MatchContext({"root": operation}) (176, 28-29); prior is the context
\* of the match before, which is not used
NewContext(prior, operation) == Put(EmptyDict, "root", OpVal(operation))

\* a loop that goes on to the later constraints after one has failed
RECURSIVE Match_loop_all(_, _, _, _)
Match_loop_all(m, constraints, ctx, i) ==
    IF i > Len(constraints) THEN MOut("passed", NoExc, EmptyDict, ctx, i - 1)
    ELSE Let(Constraint_match(m, constraints[i], ctx),
             LAMBDA r :
               IF r.exc # NoExc THEN MOut("exc", r.exc, EmptyDict, r.ctx, i - 1)
               ELSE IF ~r.ok
               THEN Let(Match_loop_all(m, constraints, r.ctx, i + 1),
                        LAMBDA rest :
                          IF rest.kind = "exc" THEN rest
                          ELSE MOut("none", NoExc, EmptyDict, rest.ctx, i - 1))
               ELSE Match_loop_all(m, constraints, r.ctx, i + 1))

\* the loop over the constraints (178-180), from constraint i on
RECURSIVE Match_loop(_, _, _, _)
Match_loop(m, constraints, ctx, i) ==
    IF i > Len(constraints) THEN MOut("passed", NoExc, EmptyDict, ctx, i - 1)
    ELSE Let(Constraint_match(m, constraints[i], ctx),
             LAMBDA r :
               IF r.exc # NoExc THEN MOut("exc", r.exc, EmptyDict, r.ctx, i - 1)
               ELSE IF ~r.ok THEN MOut("none", NoExc, EmptyDict, r.ctx, i - 1)
               ELSE Match_loop(m, constraints, r.ctx, i + 1))

\* Query.match (172-189)
Query_match(m, self, operation, prior) ==
    Let(Match_loop(m, self.constraints, NewContext(prior, operation), 1),
        LAMBDA r :
          IF r.kind # "passed" THEN r
          ELSE IF \A name \in Range(self.variables) : Has(r.ctx, name)
          THEN MOut("match", NoExc, [name \in Range(self.variables) |-> r.ctx[name]],
                    r.ctx, r.passed)
          ELSE MOut("exc", "KeyError", EmptyDict, r.ctx, r.passed))

\* the mutation handle given to a pattern, as the calls made on it
NewHandle == [calls |-> <<>>]

\* the caller-supplied rewrite action: it erases the operation bound to root
EraseRoot(match, rewriter) ==
    [rewriter EXCEPT !.calls = Append(@, <<"erase_op", match["root"]>>)]

\* what match_and_rewrite did: the arguments of each call of the rewrite
\* action, the handle afterwards, the exception raised
QOut(e, invoked, rewriter) == [exc |-> e, invoked |-> invoked, rewriter |-> rewriter]

\* a pattern that calls the rewrite action whatever the match returned
QueryRewritePattern_match_and_rewrite_always(m, self_query, op, rewriter) ==
    Let(Query_match(m, self_query, op, EmptyDict),
        LAMBDA match :
          IF match.kind = "exc" THEN QOut(match.exc, <<>>, rewriter)
          ELSE QOut(NoExc,
                    <<[match |-> Put(match.match, "root", OpVal(op)),
                       rewriter |-> rewriter]>>,
                    EraseRoot(Put(match.match, "root", OpVal(op)), rewriter)))

\* QueryRewritePattern.match_and_rewrite (212-214)
QueryRewritePattern_match_and_rewrite(m, self_query, op, rewriter) ==
    Let(Query_match(m, self_query, op, EmptyDict),
        LAMBDA match :
          IF match.kind = "exc" THEN QOut(match.exc, <<>>, rewriter)
          ELSE IF match.kind = "match"
          THEN QOut(NoExc, <<[match |-> match.match, rewriter |-> rewriter]>>,
                    EraseRoot(match.match, rewriter))
          ELSE QOut(NoExc, <<>>, rewriter))

(***************************************************************************)
(* The matcher machine: a query is built from Query.root by appending      *)
(* variables and constraints, and is then matched against operations.      *)
(***************************************************************************)
MaxConstraints == 2     \* constraints appended after the root's

Kinds == {"Operation", "BinaryOperation", "Addi", "Const"}
VarNames == <<"x", "y">>

MatchConstraints ==
    {OperationOperandConstraint("root", "lhs", "x"),
     OperationOperandConstraint("root", "rhs", "x"),
     OperationOperandConstraint("root", "rhs", "y"),
     OperationResultConstraint("root", "result", "x"),
     OperationAttributeConstraint("root", "value", "x"),
     AttributeValueConstraint("x", "1"),
     OpResultOpConstraint("x", "y"),
     TypeConstraint("y", "Const"),
     EqConstraint("x", "y")}

\* no constraint evaluated on its own yet
NoSet == [c |-> EqConstraint("", ""), val |-> OpVal(0), before |-> EmptyDict,
          out |-> CR(FALSE, "idle", EmptyDict)]

\* the pattern has not run yet
NoQrp == [op |-> 0, out |-> QOut("idle", <<>>, NewHandle)]

MatchIdle ==
    /\ query = [variables |-> <<>>, constraints |-> <<>>]
    /\ mop = 0
    /\ mout = NoMatch
    /\ pout = NoMatch
    /\ vset = NoSet
    /\ qrp = NoQrp

MatchInit ==
    /\ query \in {Query_root(root_type) : root_type \in Kinds}
    /\ mop = 0
    /\ mout = NoMatch
    /\ pout = NoMatch
    /\ vset = NoSet
    /\ qrp = NoQrp

\* query.variables.append(Variable(name))
AddVariable ==
    /\ mop = 0
    /\ qrp.op = 0
    /\ Len(query.variables) <= Len(VarNames)
    /\ query' = [query EXCEPT !.variables = Append(@, VarNames[Len(query.variables)])]
    /\ UNCHANGED <<mop, mout, pout, vset, qrp, notMatch>>

\* query.constraints.append(constraint)
AddConstraint ==
    \E c \in MatchConstraints :
        /\ mop = 0
        /\ qrp.op = 0
        /\ Len(query.constraints) <= MaxConstraints
        /\ query' = [query EXCEPT !.constraints = Append(@, c)]
        /\ UNCHANGED <<mop, mout, pout, vset, qrp, notMatch>>

\* query.match(operation); pout keeps what the match before returned when
\* it was on the same operation
Match ==
    \E operation \in MatchOps :
        /\ vset = NoSet
        /\ mout' = Query_match(MatchHeap, query, operation, mout.ctx)
        /\ pout' = IF mop = operation THEN mout ELSE NoMatch
        /\ mop' = operation
        /\ UNCHANGED <<query, vset, qrp, notMatch>>

\* the constraints that end with Variable.set
SettingConstraints == {c \in MatchConstraints : c.y # ""}

\* the value a setting constraint passes to Variable.set: the value of its
\* first variable (82), or the attribute of that value it names (116-117,
\* 128-129, 140-141, 151-152)
ValueToSet(m, c, ctx) ==
    IF c.c = "Eq" THEN Variable_get(ctx, c.x).v
    ELSE GetAttr(m, Variable_get(ctx, c.x).v, IF c.c = "OpResultOp" THEN "op" ELSE c.n).v

\* constraint.match(ctx) for a constraint that sets a variable, on the
\* context the last match left
SetVariable ==
    /\ mop # 0
    /\ mout.kind \in {"match", "none"}
    /\ \E c \in SettingConstraints :
          /\ Has(mout.ctx, c.x)
          /\ vset' = [c |-> c, val |-> ValueToSet(MatchHeap, c, mout.ctx),
                      before |-> mout.ctx,
                      out |-> Constraint_match(MatchHeap, c, mout.ctx)]
    /\ UNCHANGED <<query, mop, mout, pout, qrp, notMatch>>

\* QueryRewritePattern(query, rewrite).match_and_rewrite(op, rewriter)
MatchAndRewrite ==
    \E op \in MatchOps :
        /\ mop = 0
        /\ qrp' = [op |-> op,
                   out |-> QueryRewritePattern_match_and_rewrite(MatchHeap, query, op,
                                                                 NewHandle)]
        /\ UNCHANGED <<query, mop, mout, pout, vset, notMatch>>

QrpNext ==
    \/ AddVariable
    \/ AddConstraint
    \/ MatchAndRewrite

SetNext ==
    \/ AddVariable
    \/ AddConstraint
    \/ Match
    \/ SetVariable

MatchNext ==
    \/ AddVariable
    \/ AddConstraint
    \/ Match

(***************************************************************************)
(* The rewrite engine (spec section 4.4): the mutation handle, the         *)
(* composite applier and the fixpoint driver, over a module with one       *)
(* block.                                                                  *)
(*                                                                         *)
(* The module is [h, uses]: a mutable heap whose operation 1 is the module *)
(* and whose block 1 holds the operations in order, and the use lists, a   *)
(* dictionary from a value's key to the set of <<user, operand position>>. *)
(* An operation that was erased or replaced stays in the heap and is no    *)
(* longer in the block.                                                    *)
(***************************************************************************)
UsesOf(uses, key) == IF Has(uses, key) THEN uses[key] ELSE {}

BlockOps(rm) == rm.h.blocks[1].ops

ResultsOf(h, op) ==
    [i \in 1..Len(h.ops[op].result_types) |->
        Val("res", op, i - 1, h.ops[op].result_types[i])]

\* the uses of every result of an operation
Users(rm, op) ==
    UNION {UsesOf(rm.uses, VKey(ResultsOf(rm.h, op)[i])) :
               i \in 1..Len(ResultsOf(rm.h, op))}

\* a new operation, not yet in the block, is entered in the use list of
\* each of its operands
RECURSIVE AddUses(_, _, _, _)
AddUses(uses, op, operands, i) ==
    IF i > Len(operands) THEN uses
    ELSE AddUses(Put(uses, VKey(operands[i]),
                     UsesOf(uses, VKey(operands[i])) \cup {<<op, i>>}),
                 op, operands, i + 1)

RwCreate(rm, op_type, operands, result_types, attributes) ==
    [rm |-> [h |-> Operation_create(rm.h, op_type, operands, result_types, attributes,
                                    <<>>, <<>>).h,
             uses |-> AddUses(rm.uses, Len(rm.h.ops) + 1, operands, 1)],
     ret |-> Len(rm.h.ops) + 1]

\* the operation stays a user of its operands
DropUses_keep(uses, op) == uses

\* an operation that leaves the module is taken out of the use lists of its
\* operands
DropUses(uses, op) == [key \in DOMAIN uses |-> {u \in uses[key] : u[1] # op}]

\* every use of result i of old_op becomes a use of result i of by_op
RECURSIVE RedirectUses(_, _, _, _)
RedirectUses(rm, old_op, by_op, i) ==
    IF i > Len(ResultsOf(rm.h, old_op)) THEN rm
    ELSE RedirectUses(
           [h |-> [rm.h EXCEPT !.ops =
                     [u \in 1..Len(rm.h.ops) |->
                        [rm.h.ops[u] EXCEPT !.operands =
                           [p \in 1..Len(rm.h.ops[u].operands) |->
                              IF <<u, p>> \in UsesOf(rm.uses,
                                                 VKey(ResultsOf(rm.h, old_op)[i]))
                              THEN ResultsOf(rm.h, by_op)[i]
                              ELSE rm.h.ops[u].operands[p]]]]],
            uses |-> Put(Put(rm.uses, VKey(ResultsOf(rm.h, by_op)[i]),
                             UsesOf(rm.uses, VKey(ResultsOf(rm.h, by_op)[i]))
                                \cup UsesOf(rm.uses, VKey(ResultsOf(rm.h, old_op)[i]))),
                         VKey(ResultsOf(rm.h, old_op)[i]), {})],
           old_op, by_op, i + 1)

\* the operations of the block that have an operand among the results of op,
\* in block order
UsersInOrder(rm, op) ==
    SelectSeq(BlockOps(rm), LAMBDA u : \E use \in Users(rm, op) : use[1] = u)

\* the block with new_ops put in the place of op (keep = FALSE), or just
\* before it (keep = TRUE)
Splice(ops, op, new_ops, keep) ==
    SubSeq(ops, 1, IndexOf(ops, op) - 1) \o new_ops
        \o (IF keep THEN <<op>> ELSE <<>>)
        \o SubSeq(ops, IndexOf(ops, op) + 1, Len(ops))

\* what a call on the mutation handle returns: the module, the operations
\* it made reachable and the operations it modified
Mutated(rm, added, modified) == [rm |-> rm, added |-> added, modified |-> modified]

\* insert new operations immediately before the operation being rewritten
PatternRewriter_insert_op_before_matched_op(rm, op, new_ops) ==
    Mutated([rm EXCEPT !.h.blocks[1].ops = Splice(@, op, new_ops, TRUE)],
            new_ops, <<>>)

PatternRewriter_replace_matched_op_no_redirect(rm, op, new_ops) ==
    Mutated([h |-> [rm.h EXCEPT !.blocks[1].ops = Splice(@, op, new_ops, FALSE)],
             uses |-> DropUses(rm.uses, op)],
            new_ops, <<>>)

\* replace the matched operation with new operations: the results of the
\* last one stand for the results of the original, whose uses are
\* redirected
PatternRewriter_replace_matched_op(rm, op, new_ops) ==
    Mutated([h |-> [RedirectUses(rm, op, new_ops[Len(new_ops)], 1).h
                       EXCEPT !.blocks[1].ops = Splice(@, op, new_ops, FALSE)],
             uses |-> DropUses(RedirectUses(rm, op, new_ops[Len(new_ops)], 1).uses, op)],
            new_ops, UsersInOrder(rm, op))

\* erase an operation with no remaining uses
PatternRewriter_erase_matched_op(rm, op) ==
    Mutated([h |-> [rm.h EXCEPT !.blocks[1].ops = Splice(@, op, <<>>, FALSE)],
             uses |-> DropUses(rm.uses, op)],
            <<>>, <<>>)

\* the mutation handle as a rewrite action sees it: the module, the
\* operations made reachable and modified so far, the calls made so far,
\* each with the module before and after it, and the exception raised
Rewriter(rm) ==
    [rm |-> rm, added |-> <<>>, modified |-> <<>>, calls |-> <<>>, exc |-> NoExc]

\* the handle after a call that returned out
Did(rw, kind, op, new_ops, out) ==
    [rw EXCEPT !.rm = out.rm,
               !.added = @ \o out.added,
               !.modified = @ \o out.modified,
               !.calls = Append(@, [kind |-> kind, op |-> op, new_ops |-> new_ops,
                                    before |-> rw.rm, after |-> out.rm])]

\* the value attribute of a constant
RwValue(rm, op) == (CHOOSE a \in rm.h.ops[op].attributes : a[1] = "value")[2]

\* whether the operation is an addition of the results of two constants
IsAddOfConstants(rm, op) ==
    /\ rm.h.ops[op].op_type = "Add"
    /\ \A p \in 1..2 : /\ rm.h.ops[op].operands[p].k = "res"
                       /\ rm.h.ops[rm.h.ops[op].operands[p].id].op_type = "Const"

\* the folding pattern: the addition is replaced by a constant holding the
\* sum of the two constants it reads
FoldAdd_rewrite(rm, op) ==
    Let(RwCreate(rm, "Const", <<>>, rm.h.ops[op].result_types,
                 {<<"value", RwValue(rm, rm.h.ops[op].operands[1].id)
                               + RwValue(rm, rm.h.ops[op].operands[2].id)>>}),
        LAMBDA c :
          Let(PatternRewriter_replace_matched_op(c.rm, op, <<c.ret>>),
              LAMBDA replaced :
                Did(Rewriter(c.rm), "replace", op, <<c.ret>>, replaced)))

(***************************************************************************)
(* The lowering of memref operations to riscv                              *)
(* (xdsl/backend/riscv/lowering/convert_memref_to_riscv.py).  A type is a  *)
(* string; a memref type gives its element type and its number of          *)
(* dimensions.  The patterns for memref.store and memref.load begin with   *)
(* a call of cast_operands_to_regs of xdsl.backend.riscv.lowering.utils,   *)
(* which is not among the sources.  What the call does is an input of the  *)
(* run, taken from UtilsStandIns: each stand-in returns, for every operand *)
(* of the matched operation, a value of a register type, after one call    *)
(* on the handle.  What the patterns do after the call is read from the    *)
(* code.                                                                   *)
(***************************************************************************)
MemRefTypes == {"memref<1xi32>", "memref<2x2xf32>", "memref<1xi64>", "memref<1x1x1xi32>"}

MemRefType_element_type(t) ==
    CASE t = "memref<1xi32>" -> "i32"
      [] t = "memref<2x2xf32>" -> "f32"
      [] t = "memref<1xi64>" -> "i64"
      [] t = "memref<1x1x1xi32>" -> "i32"

\* the number of dimensions of MemRefType.get_shape()
MemRefType_rank(t) ==
    CASE t = "memref<1xi32>" -> 1
      [] t = "memref<2x2xf32>" -> 2
      [] t = "memref<1xi64>" -> 1
      [] t = "memref<1x1x1xi32>" -> 3

DiagnosticException == "DiagnosticException"

AttributeError == "AttributeError"

\* the names the package xdsl.dialects.riscv binds
\* (xdsl/dialects/riscv/__init__.py): those it imports and assigns, the
\* submodules it imports from and the attributes every package has
riscv_names ==
    {"RISCV_CORE", "AddiOp", "AddOp", "AndiOp", "AndOp", "AuipcOp",
     "BeqOp", "BgeOp", "BgeuOp", "BltOp", "BltuOp", "BneOp", "CommentOp",
     "CustomAssemblyInstructionOp", "DivOp", "DivuOp", "EbreakOp",
     "EcallOp", "GetRegisterOp", "JalOp", "JalrOp", "JOp", "LbOp", "LbuOp",
     "LhOp", "LhuOp", "LiOp", "LuiOp", "LwOp", "MulhOp", "MulhsuOp",
     "MulhuOp", "MulOp", "MVOp", "NopOp", "OriOp", "OrOp",
     "IntegerRegister", "IntegerRegisters", "IntegerRegisterType", "RemOp",
     "RemuOp", "ReturnOp", "SbOp", "ScfgwOp", "ShOp", "SlliOp", "SllOp",
     "SltiOp", "SltiuOp", "SltOp", "SltuOp", "SraiOp", "SraOp", "SrliOp",
     "SrlOp", "SubOp", "SwOp", "WfiOp", "XoriOp", "XorOp", "DirectiveOp",
     "LabelOp", "RISCVInstruction", "RISCVOp", "print_assembly",
     "riscv_code", "RISCV_F", "FAddSOp", "FClassSOp", "FCvtSWOp",
     "FCvtSWuOp", "FCvtWSOp", "FCvtWuSOp", "FDivSOp", "FeqSOP", "FleSOP",
     "FloatRegister", "FloatRegisters", "FloatRegisterType", "FltSOP",
     "FLwOp", "FMAddSOp", "FMaxSOp", "FMinSOp", "FMSubSOp", "FMulSOp",
     "FMvWXOp", "FMvXWOp", "FNMAddSOp", "FNMSubSOp", "FSgnJNSOp",
     "FSgnJSOp", "FSgnJXSOp", "FSqrtSOp", "FSubSOp", "FSwOp",
     "RISCV_ZICSR", "CsrrciOp", "CsrrcOp", "CsrrsiOp", "CsrrsOp",
     "CsrrwiOp", "CsrrwOp", "RISCV", "Dialect",
     "base", "core", "F", "Zicsr",
     "__name__", "__doc__", "__package__", "__loader__", "__spec__",
     "__path__", "__file__", "__cached__", "__builtins__"}

\* riscv.name is an AttributeError for a name the package does not bind
riscv_has(name) == name \in riscv_names

\* the stand-ins for the module utils: "one_cast" inserts one cast of all
\* the operands, with a result of type !riscv.reg for each; "cast_each"
\* inserts a cast for each operand, to the register type for its type
UtilsStandIns == {"one_cast", "cast_each"}

\* the register type that holds a value of the type
register_type_for_type(t) == IF t = "f32" THEN "!riscv.freg" ELSE "!riscv.reg"

\* a cast to a register is built for every operand
RECURSIVE CastLoop(_, _, _, _, _)
CastLoop(rm, operands, i, new_ops, new_operands) ==
    IF i > Len(operands)
    THEN [rm |-> rm, new_ops |-> new_ops, new_operands |-> new_operands]
    ELSE Let(RwCreate(rm, "builtin.unrealized_conversion_cast", <<operands[i]>>,
                      <<register_type_for_type(operands[i].typ)>>, {}),
             LAMBDA c :
               CastLoop(c.rm, operands, i + 1, Append(new_ops, c.ret),
                        Append(new_operands, ResultsOf(c.rm.h, c.ret)[1])))

\* one cast of all the operands
CastAll(rm, operands) ==
    Let(RwCreate(rm, "builtin.unrealized_conversion_cast", operands,
                 [i \in 1..Len(operands) |-> "!riscv.reg"], {}),
        LAMBDA c : [rm |-> c.rm, new_ops |-> <<c.ret>>,
                    new_operands |-> ResultsOf(c.rm.h, c.ret)])

\* cast_operands_to_regs(rewriter) as the stand-in does it: the casts are
\* inserted before the matched operation and the operands as registers
\* are returned
cast_operands_to_regs(rw, op, utils) ==
    Let(IF utils = "one_cast"
        THEN CastAll(rw.rm, rw.rm.h.ops[op].operands)
        ELSE CastLoop(rw.rm, rw.rm.h.ops[op].operands, 1, <<>>, <<>>),
        LAMBDA c :
          Let(PatternRewriter_insert_op_before_matched_op(c.rm, op, c.new_ops),
              LAMBDA inserted :
                [rw |-> Did([rw EXCEPT !.rm = c.rm], "insert", op, c.new_ops, inserted),
                 ret |-> c.new_operands]))

ShapeOps(rm, ops, ptr, e) == [rm |-> rm, ops |-> ops, ptr |-> ptr, exc |-> e]

\* the operations that compute the byte offset and the pointer:
\* bytes_per_element_op, offset_bytes and ptr
ShapeOps_tail(rm, mem, ops, offset_in_elements) ==
    Let(RwCreate(rm, "riscv.li", <<>>, <<"!riscv.reg">>, {<<"immediate", 4>>}),
        LAMBDA bytes_per_element_op :
          Let(RwCreate(bytes_per_element_op.rm, "riscv.mul",
                       <<offset_in_elements,
                         ResultsOf(bytes_per_element_op.rm.h, bytes_per_element_op.ret)[1]>>,
                       <<"!riscv.reg">>, {}),
              LAMBDA offset_bytes :
                Let(RwCreate(offset_bytes.rm, "riscv.add",
                             <<mem, ResultsOf(offset_bytes.rm.h, offset_bytes.ret)[1]>>,
                             <<"!riscv.reg">>, {}),
                    LAMBDA ptr :
                      ShapeOps(ptr.rm,
                               ops \o <<bytes_per_element_op.ret, offset_bytes.ret, ptr.ret>>,
                               ResultsOf(ptr.rm.h, ptr.ret)[1], NoExc))))

\* the operations of the two-dimensional case: cols, row_offset and offset
ShapeOps_2d(rm, mem, indices) ==
    Let(RwCreate(rm, "riscv.li", <<>>, <<"!riscv.reg">>, {<<"immediate", 2>>}),
        LAMBDA cols :
          Let(RwCreate(cols.rm, "riscv.mul",
                       <<ResultsOf(cols.rm.h, cols.ret)[1], indices[1]>>,
                       <<"!riscv.reg">>, {}),
              LAMBDA row_offset :
                Let(RwCreate(row_offset.rm, "riscv.add",
                             <<ResultsOf(row_offset.rm.h, row_offset.ret)[1], indices[2]>>,
                             <<"!riscv.reg">>, {}),
                    LAMBDA offset :
                      ShapeOps_tail(offset.rm, mem,
                                    <<cols.ret, row_offset.ret, offset.ret>>,
                                    ResultsOf(offset.rm.h, offset.ret)[1]))))

\* the operations computing a pointer into the memref: only elements of 32
\* bits and one or two dimensions are handled
memref_shape_ops(rm, mem, indices, memref_type) ==
    IF MemRefType_rank(memref_type) # Len(indices)
    THEN ShapeOps(rm, <<>>, mem, "AssertionError")
    ELSE IF MemRefType_element_type(memref_type) \notin {"i32", "f32"}
    THEN ShapeOps(rm, <<>>, mem, DiagnosticException)
    ELSE IF Len(indices) = 1
    THEN ShapeOps_tail(rm, mem, <<>>, indices[1])
    ELSE IF Len(indices) = 2
    THEN ShapeOps_2d(rm, mem, indices)
    ELSE ShapeOps(rm, <<>>, mem, DiagnosticException)

\* a call on the handle, recorded
Insert(rw, op, new_ops) ==
    Let(PatternRewriter_insert_op_before_matched_op(rw.rm, op, new_ops),
        LAMBDA inserted : Did(rw, "insert", op, new_ops, inserted))

\* memref.store: value, mem and the indices are cast, the pointer is
\* computed before the matched operation; the test of the value's type
\* reads riscv.IntRegisterType (115), and a store word replaces the matched
\* operation
ConvertMemrefStoreOp_match_and_rewrite(rm, op, utils) ==
    Let(cast_operands_to_regs(Rewriter(rm), op, utils),
        LAMBDA c :
          Let(memref_shape_ops(c.rw.rm, c.ret[2], SubSeq(c.ret, 3, Len(c.ret)),
                               rm.h.ops[op].operands[2].typ),
              LAMBDA s :
                IF s.exc # NoExc THEN [c.rw EXCEPT !.exc = s.exc]
                ELSE Let(Insert([c.rw EXCEPT !.rm = s.rm], op, s.ops),
                         LAMBDA rw :
                           IF ~riscv_has("IntRegisterType")
                           THEN [rw EXCEPT !.exc = AttributeError]
                           ELSE
                           Let(RwCreate(rw.rm,
                                        IF c.ret[1].typ = "!riscv.reg"
                                        THEN "riscv.sw" ELSE "riscv.fsw",
                                        <<s.ptr, c.ret[1]>>, <<>>, {<<"immediate", 0>>}),
                               LAMBDA sw_op :
                                 Let(PatternRewriter_replace_matched_op(
                                         sw_op.rm, op, <<sw_op.ret>>),
                                     LAMBDA replaced :
                                       Did([rw EXCEPT !.rm = sw_op.rm], "replace", op,
                                           <<sw_op.ret>>, replaced))))))

\* memref.load: mem and the indices are cast, the pointer is computed
\* before the matched operation; the test of the result's register type
\* reads riscv.IntRegisterType (139), and a load word and a cast of its
\* result to the type of the loaded value replace the matched operation
ConvertMemrefLoadOp_match_and_rewrite(rm, op, utils) ==
    Let(cast_operands_to_regs(Rewriter(rm), op, utils),
        LAMBDA c :
          Let(memref_shape_ops(c.rw.rm, c.ret[1], SubSeq(c.ret, 2, Len(c.ret)),
                               rm.h.ops[op].operands[1].typ),
              LAMBDA s :
                IF s.exc # NoExc THEN [c.rw EXCEPT !.exc = s.exc]
                ELSE Let(Insert([c.rw EXCEPT !.rm = s.rm], op, s.ops),
                         LAMBDA rw :
                           IF ~riscv_has("IntRegisterType")
                           THEN [rw EXCEPT !.exc = AttributeError]
                           ELSE
                           Let(RwCreate(rw.rm,
                                        IF register_type_for_type(
                                               rm.h.ops[op].result_types[1]) = "!riscv.reg"
                                        THEN "riscv.lw" ELSE "riscv.flw",
                                        <<s.ptr>>,
                                        <<register_type_for_type(
                                              rm.h.ops[op].result_types[1])>>,
                                        {<<"immediate", 0>>}),
                               LAMBDA lw :
                                 Let(RwCreate(lw.rm, "builtin.unrealized_conversion_cast",
                                              ResultsOf(lw.rm.h, lw.ret),
                                              <<rm.h.ops[op].result_types[1]>>, {}),
                                     LAMBDA cast :
                                       Let(PatternRewriter_replace_matched_op(
                                               cast.rm, op, <<lw.ret, cast.ret>>),
                                           LAMBDA replaced :
                                             Did([rw EXCEPT !.rm = cast.rm], "replace", op,
                                                 <<lw.ret, cast.ret>>, replaced)))))))

\* a pattern that returns without raising
ConvertMemrefAllocOp_match_and_rewrite_silent(rm, op) == Rewriter(rm)

\* memref.alloc and memref.dealloc are not lowered: the pattern raises
ConvertMemrefAllocOp_match_and_rewrite(rm, op) ==
    [Rewriter(rm) EXCEPT !.exc = DiagnosticException]

ConvertMemrefDeallocOp_match_and_rewrite(rm, op) ==
    [Rewriter(rm) EXCEPT !.exc = DiagnosticException]

\* a pattern that inserts an operation before the matched operation and
\* then raises
InsertThenRaise_rewrite(rm, op) ==
    Let(RwCreate(rm, "P", <<>>, <<"i32">>, {}), LAMBDA p :
    Let(Insert([Rewriter(rm) EXCEPT !.rm = p.rm], op, <<p.ret>>), LAMBDA rw :
        [rw EXCEPT !.exc = DiagnosticException]))

\* a pattern that inserts two operations before the matched operation and
\* replaces it by a list of two, the second using the first and carrying
\* the results
ReplaceByTwo_rewrite(rm, op) ==
    Let(RwCreate(rm, "P", <<>>, <<"i32">>, {}), LAMBDA p1 :
    Let(RwCreate(p1.rm, "P", <<>>, <<"i32">>, {}), LAMBDA p2 :
    Let(Insert([Rewriter(rm) EXCEPT !.rm = p2.rm], op, <<p1.ret, p2.ret>>), LAMBDA rw :
    Let(RwCreate(rw.rm, "A2", <<>>, <<"i32">>, {}), LAMBDA first :
    Let(RwCreate(first.rm, "A3", <<ResultsOf(first.rm.h, first.ret)[1]>>,
                 rm.h.ops[op].result_types, {}), LAMBDA last :
    Let(PatternRewriter_replace_matched_op(last.rm, op, <<first.ret, last.ret>>),
        LAMBDA replaced :
          Did([rw EXCEPT !.rm = last.rm], "replace", op, <<first.ret, last.ret>>,
              replaced)))))))

\* the patterns of ConvertMemrefToRiscvPass, in the order it lists them
LowerPatterns ==
    <<"ConvertMemrefAllocOp", "ConvertMemrefDeallocOp", "ConvertMemrefStoreOp",
      "ConvertMemrefLoadOp">>

(***************************************************************************)
(* The lowering of cf branches to riscv_cf                                 *)
(* (docs/Toy/toy/rewrites/lower_riscv_cf.py).  A branch carries the        *)
(* numbers of its then and else arguments as attributes; its successors    *)
(* are blocks of the module's region.                                      *)
(***************************************************************************)
AssertionError == "AssertionError"

RwAttr(rm, op, name) == (CHOOSE a \in rm.h.ops[op].attributes : a[1] = name)[2]

\* an operation with successors is created and entered in the use lists of
\* its operands
RwCreateBranch(rm, op_type, operands, attributes, successors) ==
    [rm |-> [h |-> Operation_create(rm.h, op_type, operands, <<>>, attributes,
                                    successors, <<>>).h,
             uses |-> AddUses(rm.uses, Len(rm.h.ops) + 1, operands, 1)],
     ret |-> Len(rm.h.ops) + 1]

\* one cast of all the values to registers is inserted before the matched
\* operation; nothing is done for no value.  The types of the cast are
\* built from riscv.RegisterType and riscv.Register (21).
cast_values_to_registers(rw, op, operands) ==
    IF operands = <<>> THEN [rw |-> rw, ret |-> <<>>]
    ELSE IF ~riscv_has("RegisterType") \/ ~riscv_has("Register")
    THEN [rw |-> [rw EXCEPT !.exc = AttributeError], ret |-> <<>>]
    ELSE Let(RwCreate(rw.rm, "builtin.unrealized_conversion_cast", operands,
                      [i \in 1..Len(operands) |-> "!riscv.reg"], {}),
             LAMBDA cast :
               [rw |-> Insert([rw EXCEPT !.rm = cast.rm], op, <<cast.ret>>),
                ret |-> ResultsOf(cast.rm.h, cast.ret)])

\* a move of each register is inserted before the matched operation
RECURSIVE copy_registers_loop(_, _, _, _, _)
copy_registers_loop(rw, op, operands, i, results) ==
    IF i > Len(operands) THEN [rw |-> rw, ret |-> results]
    ELSE Let(RwCreate(rw.rm, "riscv.mv", <<operands[i]>>, <<"!riscv.reg">>, {}),
             LAMBDA mv :
               Let(Insert([rw EXCEPT !.rm = mv.rm], op, <<mv.ret>>),
                   LAMBDA inserted :
                     copy_registers_loop(inserted, op, operands, i + 1,
                                         Append(results, ResultsOf(mv.rm.h, mv.ret)[1]))))

copy_registers(rw, op, operands) == copy_registers_loop(rw, op, operands, 1, <<>>)

\* the matched operation is replaced by one new operation
ReplaceBy(rw, op, created) ==
    Let(PatternRewriter_replace_matched_op(created.rm, op, <<created.ret>>),
        LAMBDA replaced :
          Did([rw EXCEPT !.rm = created.rm], "replace", op, <<created.ret>>, replaced))

\* cf.br: the arguments are cast and copied, and a jump replaces the branch
LowerBranchOp_match_and_rewrite(rm, op) ==
    Let(cast_values_to_registers(Rewriter(rm), op, rm.h.ops[op].operands),
        LAMBDA cast :
          IF cast.rw.exc # NoExc THEN cast.rw
          ELSE
          Let(copy_registers(cast.rw, op, cast.ret),
              LAMBDA copied :
                ReplaceBy(copied.rw, op,
                          RwCreateBranch(copied.rw.rm, "riscv_cf.j", copied.ret, {},
                                         rm.h.ops[op].successors))))

\* the arguments of a conditional branch: the operands after the condition
then_arguments(rm, op) ==
    SubSeq(rm.h.ops[op].operands, 2, 1 + RwAttr(rm, op, "then_arguments"))

else_arguments(rm, op) ==
    SubSeq(rm.h.ops[op].operands, 2 + RwAttr(rm, op, "then_arguments"),
           Len(rm.h.ops[op].operands))

\* the riscv_cf branch of a comparison predicate, and whether the operands,
\* the arguments and the blocks are swapped
BranchOfPredicate(predicate) ==
    CASE predicate = 0 -> [name |-> "riscv_cf.beq", flip |-> FALSE]
      [] predicate = 1 -> [name |-> "riscv_cf.bne", flip |-> FALSE]
      [] predicate = 2 -> [name |-> "riscv_cf.blt", flip |-> FALSE]
      [] predicate = 3 -> [name |-> "riscv_cf.bge", flip |-> TRUE]
      [] predicate = 4 -> [name |-> "riscv_cf.blt", flip |-> TRUE]
      [] predicate = 5 -> [name |-> "riscv_cf.bge", flip |-> FALSE]
      [] predicate = 6 -> [name |-> "riscv_cf.blt", flip |-> FALSE]
      [] predicate = 7 -> [name |-> "riscv_cf.bgeu", flip |-> TRUE]
      [] predicate = 8 -> [name |-> "riscv_cf.bltu", flip |-> TRUE]
      [] predicate = 9 -> [name |-> "riscv_cf.bgeu", flip |-> FALSE]

\* the branch built for the predicate from the registers of the comparison
\* and of the arguments
CondBranch(rm, predicate, lhs, rhs, new_then, new_else, then_block, else_block) ==
    IF BranchOfPredicate(predicate).flip
    THEN RwCreateBranch(rm, BranchOfPredicate(predicate).name,
                        <<rhs, lhs>> \o new_else \o new_then,
                        {<<"then_arguments", Len(new_else)>>,
                         <<"else_arguments", Len(new_then)>>},
                        <<else_block, then_block>>)
    ELSE RwCreateBranch(rm, BranchOfPredicate(predicate).name,
                        <<lhs, rhs>> \o new_then \o new_else,
                        {<<"then_arguments", Len(new_then)>>,
                         <<"else_arguments", Len(new_else)>>},
                        <<then_block, else_block>>)

\* the part of the pattern that depends on the condition: when it is the
\* result of an arith.cmpi, the operands of the comparison are cast and
\* the branch of its predicate replaces the matched operation; the other
\* cases fail an assertion
LowerConditionalBranchOp_dispatch(rm, op, rw, new_then, new_else) ==
    IF /\ rm.h.ops[op].operands[1].k = "res"
       /\ rm.h.ops[rm.h.ops[op].operands[1].id].op_type = "arith.cmpi"
    THEN Let(cast_values_to_registers(rw, op,
                 rm.h.ops[rm.h.ops[op].operands[1].id].operands),
             LAMBDA cast :
               IF cast.rw.exc # NoExc THEN cast.rw
               ELSE
               IF RwAttr(rm, rm.h.ops[op].operands[1].id, "predicate") \in 0..9
               THEN ReplaceBy(cast.rw, op,
                        CondBranch(cast.rw.rm,
                                   RwAttr(rm, rm.h.ops[op].operands[1].id, "predicate"),
                                   cast.ret[1], cast.ret[2], new_then, new_else,
                                   rm.h.ops[op].successors[1],
                                   rm.h.ops[op].successors[2]))
               ELSE [cast.rw EXCEPT !.exc = AssertionError])
    ELSE [rw EXCEPT !.exc = AssertionError]

\* cf.cond_br: the then and the else arguments are cast and copied, then
\* the condition decides
LowerConditionalBranchOp_match_and_rewrite(rm, op) ==
    Let(cast_values_to_registers(Rewriter(rm), op, then_arguments(rm, op)),
        LAMBDA cast_then :
          IF cast_then.rw.exc # NoExc THEN cast_then.rw
          ELSE
          Let(copy_registers(cast_then.rw, op, cast_then.ret),
              LAMBDA new_then :
                Let(cast_values_to_registers(new_then.rw, op, else_arguments(rm, op)),
                    LAMBDA cast_else :
                      IF cast_else.rw.exc # NoExc THEN cast_else.rw
                      ELSE
                      Let(copy_registers(cast_else.rw, op, cast_else.ret),
                          LAMBDA new_else :
                            LowerConditionalBranchOp_dispatch(
                                rm, op, new_else.rw, new_then.ret, new_else.ret)))))

\* the patterns of LowerCfRiscvCfPass, in the order it lists them
CfPatterns == <<"LowerBranchOp", "LowerConditionalBranchOp">>

\* the patterns given to the driver.  ReplaceA replaces an operation of
\* kind A by one of kind A2 with the same operands and result types;
\* EraseDeadK erases an operation of kind K that has no use; EraseDeadA
\* erases an operation of kind A that has no use; FoldAdd folds an addition
\* of two constants; ReplaceByTwo and InsertThenRaise accept an operation of
\* kind A.
PatternNames ==
    {"ReplaceA", "EraseDeadK", "EraseDeadA", "FoldAdd", "ReplaceByTwo",
     "InsertThenRaise"}
        \cup Range(LowerPatterns) \cup Range(CfPatterns)

\* whether the pattern rewrites the operation (it declines otherwise)
Pattern_matches(rm, pattern, op) ==
    CASE pattern = "ReplaceA" -> rm.h.ops[op].op_type = "A"
      [] pattern = "EraseDeadK" -> rm.h.ops[op].op_type = "K" /\ Users(rm, op) = {}
      [] pattern = "EraseDeadA" -> rm.h.ops[op].op_type = "A" /\ Users(rm, op) = {}
      [] pattern = "FoldAdd" -> IsAddOfConstants(rm, op)
      [] pattern = "ReplaceByTwo" -> rm.h.ops[op].op_type = "A"
      [] pattern = "InsertThenRaise" -> rm.h.ops[op].op_type = "A"
      [] pattern = "ConvertMemrefAllocOp" -> rm.h.ops[op].op_type = "memref.alloc"
      [] pattern = "ConvertMemrefDeallocOp" -> rm.h.ops[op].op_type = "memref.dealloc"
      [] pattern = "ConvertMemrefStoreOp" -> rm.h.ops[op].op_type = "memref.store"
      [] pattern = "ConvertMemrefLoadOp" -> rm.h.ops[op].op_type = "memref.load"
      [] pattern = "LowerBranchOp" -> rm.h.ops[op].op_type = "cf.br"
      [] pattern = "LowerConditionalBranchOp" -> rm.h.ops[op].op_type = "cf.cond_br"
      [] OTHER -> FALSE

\* the pattern's rewrite action, through the mutation handle
Pattern_rewrite(rm, pattern, op) ==
    CASE pattern = "ReplaceA" ->
           Let(RwCreate(rm, "A2", rm.h.ops[op].operands, rm.h.ops[op].result_types,
                        rm.h.ops[op].attributes),
               LAMBDA n :
                 Let(PatternRewriter_replace_matched_op(n.rm, op, <<n.ret>>),
                     LAMBDA replaced :
                       Did(Rewriter(n.rm), "replace", op, <<n.ret>>, replaced)))
      [] pattern = "FoldAdd" -> FoldAdd_rewrite(rm, op)
      [] pattern = "ReplaceByTwo" -> ReplaceByTwo_rewrite(rm, op)
      [] pattern = "InsertThenRaise" -> InsertThenRaise_rewrite(rm, op)
      [] pattern = "ConvertMemrefAllocOp" -> ConvertMemrefAllocOp_match_and_rewrite(rm, op)
      [] pattern = "ConvertMemrefDeallocOp" ->
           ConvertMemrefDeallocOp_match_and_rewrite(rm, op)
      [] pattern = "ConvertMemrefStoreOp" ->
           ConvertMemrefStoreOp_match_and_rewrite(rm, op, rutils)
      [] pattern = "ConvertMemrefLoadOp" ->
           ConvertMemrefLoadOp_match_and_rewrite(rm, op, rutils)
      [] pattern = "LowerBranchOp" -> LowerBranchOp_match_and_rewrite(rm, op)
      [] pattern = "LowerConditionalBranchOp" ->
           LowerConditionalBranchOp_match_and_rewrite(rm, op)
      [] OTHER -> Did(Rewriter(rm), "erase", op, <<>>,
                      PatternRewriter_erase_matched_op(rm, op))

\* what the composite applier returns: whether a pattern rewrote, the
\* mutation, the patterns invoked on the operation and those that rewrote
Applied(done, out, tried, rewrote) ==
    [done |-> done, out |-> out, tried |-> tried, rewrote |-> rewrote]

\* an applier that goes on with the later patterns after a rewrite
RECURSIVE GreedyRewritePatternApplier_match_and_rewrite_cumulative(_, _, _, _, _)
GreedyRewritePatternApplier_match_and_rewrite_cumulative(rm, patterns, op, i, tried) ==
    IF i > Len(patterns)
    THEN Applied(FALSE, Rewriter(rm), tried, <<>>)
    ELSE IF Pattern_matches(rm, patterns[i], op)
    THEN Let(Pattern_rewrite(rm, patterns[i], op),
             LAMBDA first :
               Let(GreedyRewritePatternApplier_match_and_rewrite_cumulative(
                       first.rm, patterns, op, i + 1, Append(tried, patterns[i])),
                   LAMBDA rest :
                     Applied(TRUE,
                             [rest.out EXCEPT !.added = first.added \o @,
                                              !.modified = first.modified \o @,
                                              !.calls = first.calls \o @],
                             rest.tried, <<patterns[i]>> \o rest.rewrote)))
    ELSE GreedyRewritePatternApplier_match_and_rewrite_cumulative(
             rm, patterns, op, i + 1, Append(tried, patterns[i]))

\* the composite applier: the patterns are tried in order from pattern i
\* on, and the first that does not decline rewrites; tried lists the
\* patterns invoked on the operation
RECURSIVE GreedyRewritePatternApplier_match_and_rewrite(_, _, _, _, _)
GreedyRewritePatternApplier_match_and_rewrite(rm, patterns, op, i, tried) ==
    IF i > Len(patterns)
    THEN Applied(FALSE, Rewriter(rm), tried, <<>>)
    ELSE IF Pattern_matches(rm, patterns[i], op)
    THEN Applied(TRUE, Pattern_rewrite(rm, patterns[i], op),
                 Append(tried, patterns[i]), <<patterns[i]>>)
    ELSE GreedyRewritePatternApplier_match_and_rewrite(rm, patterns, op, i + 1,
                                                       Append(tried, patterns[i]))

\* the operations of the module in traversal order: the module, then the
\* operations of its block
RwWalk(rm) == <<1>> \o BlockOps(rm)

\* the queue after a mutation made while visiting its head: the operations
\* made reachable come first, the operations still pending and still in the
\* module follow, and the modified operations that are not pending are
\* appended in the order the mutation found them
Requeue(queue, rm, added, modified) ==
    added
      \o SelectSeq(Tail(queue), LAMBDA o : o \in Range(RwWalk(rm)) /\ o \notin Range(added))
      \o SelectSeq(modified, LAMBDA o : o \notin Range(Tail(queue)) /\ o \notin Range(added))

(***************************************************************************)
(* The rewrite machine: a module is built, the driver is started on it     *)
(* with a list of patterns, and visits the queued operations one by one.   *)
(***************************************************************************)
MaxRwOps == 3

PatternLists ==
    {<<"ReplaceA">>, <<"EraseDeadK">>, <<"ReplaceA", "EraseDeadK">>,
     <<"EraseDeadK", "ReplaceA">>, <<"ReplaceA", "EraseDeadA">>,
     <<"EraseDeadA", "ReplaceA">>}

\* the values of the constants of the folding scenario
MaxConst == 2

EmptyRwModule ==
    [h |-> NewModule(<<>>), uses |-> EmptyDict]

RwIdle ==
    /\ rpc = "idle"
    /\ rmod = [h |-> EmptyMHeap, uses |-> EmptyDict]
    /\ rstart = EmptyMHeap
    /\ rpatterns = <<>>
    /\ rqueue = <<>>
    /\ rlog = <<>>
    /\ rexc = NoExc
    /\ rcalls = <<>>
    /\ rutils = "one_cast"

RwInit ==
    /\ rpc = "build"
    /\ rmod = EmptyRwModule
    /\ rstart = EmptyMHeap
    /\ rpatterns = <<>>
    /\ rqueue = <<>>
    /\ rlog = <<>>
    /\ rexc = NoExc
    /\ rcalls = <<>>
    /\ rutils \in UtilsStandIns

\* an operation of kind A or K, with one result and no operand, is appended
RwAddProducer ==
    \E kind \in {"A", "K"} :
        /\ rpc = "build"
        /\ Len(BlockOps(rmod)) < MaxRwOps
        /\ \A i \in 1..Len(BlockOps(rmod)) :
               rmod.h.ops[BlockOps(rmod)[i]].op_type \in {"A", "K", "B"}
        /\ rmod' = [RwCreate(rmod, kind, <<>>, <<"i32">>, {}).rm
                     EXCEPT !.h.blocks[1].ops = Append(@, Len(rmod.h.ops) + 1)]
        /\ UNCHANGED <<rpc, rstart, rpatterns, rqueue, rlog, rexc, rcalls, rutils,
                       notRw>>

\* an operation of kind B, whose operand is a result of an operation of the
\* block, is appended
RwAddConsumer ==
    \E producer \in Range(BlockOps(rmod)) :
        /\ rpc = "build"
        /\ Len(BlockOps(rmod)) < MaxRwOps
        /\ \A i \in 1..Len(BlockOps(rmod)) :
               rmod.h.ops[BlockOps(rmod)[i]].op_type \in {"A", "K", "B"}
        /\ rmod' = [RwCreate(rmod, "B", <<ResultsOf(rmod.h, producer)[1]>>, <<"i32">>, {}).rm
                     EXCEPT !.h.blocks[1].ops = Append(@, Len(rmod.h.ops) + 1)]
        /\ UNCHANGED <<rpc, rstart, rpatterns, rqueue, rlog, rexc, rcalls, rutils,
                       notRw>>

\* the module of the folding scenario: the constants c1, c2 and c3, then
\* r0 = add(c1, c2) and r1 = add(r0, c3)
FoldScenario ==
    \E c1 \in 0..MaxConst, c2 \in 0..MaxConst, c3 \in 0..MaxConst :
        /\ rpc = "build"
        /\ BlockOps(rmod) = <<>>
        /\ LET k1 == RwCreate(rmod, "Const", <<>>, <<"i32">>, {<<"value", c1>>})
               k2 == RwCreate(k1.rm, "Const", <<>>, <<"i32">>, {<<"value", c2>>})
               k3 == RwCreate(k2.rm, "Const", <<>>, <<"i32">>, {<<"value", c3>>})
               r0 == RwCreate(k3.rm, "Add", <<ResultsOf(k3.rm.h, k1.ret)[1],
                                               ResultsOf(k3.rm.h, k2.ret)[1]>>,
                              <<"i32">>, {})
               r1 == RwCreate(r0.rm, "Add", <<ResultsOf(r0.rm.h, r0.ret)[1],
                                               ResultsOf(r0.rm.h, k3.ret)[1]>>,
                              <<"i32">>, {})
           IN  rmod' = [r1.rm EXCEPT !.h.blocks[1].ops =
                                        <<k1.ret, k2.ret, k3.ret, r0.ret, r1.ret>>]
        /\ UNCHANGED <<rpc, rstart, rpatterns, rqueue, rlog, rexc, rcalls, rutils,
                       notRw>>

\* the driver is started on the module with one of the given pattern
\* lists: every operation of the module is queued
StartDriver(lists) ==
    \E patterns \in lists :
        /\ rpc = "build"
        /\ rpc' = "run"
        /\ rstart' = rmod.h
        /\ rpatterns' = patterns
        /\ rqueue' = RwWalk(rmod)
        /\ UNCHANGED <<rmod, rlog, rexc, rcalls, rutils, notRw>>

\* the driver is started on a module of producers and consumers
RewriteModule ==
    /\ \A i \in 1..Len(BlockOps(rmod)) :
           rmod.h.ops[BlockOps(rmod)[i]].op_type \in {"A", "K", "B"}
    /\ StartDriver(PatternLists)

\* the driver is started on a module of producers and consumers with the
\* pattern that inserts and replaces by a list
RewriteModuleByTwo ==
    /\ \A i \in 1..Len(BlockOps(rmod)) :
           rmod.h.ops[BlockOps(rmod)[i]].op_type \in {"A", "K", "B"}
    /\ StartDriver({<<"ReplaceByTwo">>})

\* the pattern lists with the pattern that inserts and then raises
RaisingLists ==
    {<<"InsertThenRaise">>, <<"EraseDeadK", "InsertThenRaise">>,
     <<"InsertThenRaise", "ReplaceA">>, <<"ReplaceA", "InsertThenRaise">>}

\* the driver is started on a module of producers and consumers with a
\* pattern whose rewrite action raises after a call on the handle
RewriteModuleRaising ==
    /\ \A i \in 1..Len(BlockOps(rmod)) :
           rmod.h.ops[BlockOps(rmod)[i]].op_type \in {"A", "K", "B"}
    /\ StartDriver(RaisingLists)

\* the driver is started with the folding pattern alone
FoldRewriteModule ==
    /\ Len(BlockOps(rmod)) = 5
    /\ StartDriver({<<"FoldAdd">>})

\* a driver that catches the exception of a rewrite action and goes on with
\* the next queued operation
Visit_catching ==
    /\ rpc = "run"
    /\ rqueue # <<>>
    /\ LET r == GreedyRewritePatternApplier_match_and_rewrite(rmod, rpatterns,
                                                              Head(rqueue), 1, <<>>)
       IN  /\ rmod' = r.out.rm
           /\ rcalls' = r.out.calls
           /\ rexc' = NoExc
           /\ rpc' = "run"
           /\ rqueue' = Tail(rqueue)
           /\ rlog' = Append(rlog, [op |-> Head(rqueue), tried |-> r.tried,
                                    done |-> r.done, rewrote |-> r.rewrote])
    /\ UNCHANGED <<rstart, rpatterns, rutils, notRw>>

\* the driver takes the first queued operation and gives it to the applier;
\* an exception raised by the rewrite action is not caught: it ends the run
\* with the module as the completed calls left it
Visit ==
    /\ rpc = "run"
    /\ rqueue # <<>>
    /\ LET r == GreedyRewritePatternApplier_match_and_rewrite(rmod, rpatterns,
                                                              Head(rqueue), 1, <<>>)
       IN  /\ rmod' = r.out.rm
           /\ rcalls' = r.out.calls
           /\ rexc' = r.out.exc
           /\ rpc' = IF r.out.exc = NoExc THEN "run" ELSE "raised"
           /\ rqueue' = IF r.out.exc # NoExc THEN rqueue
                        ELSE IF r.done
                        THEN Requeue(rqueue, r.out.rm, r.out.added, r.out.modified)
                        ELSE Tail(rqueue)
           /\ rlog' = Append(rlog, [op |-> Head(rqueue), tried |-> r.tried,
                                    done |-> r.done, rewrote |-> r.rewrote])
    /\ UNCHANGED <<rstart, rpatterns, rutils, notRw>>

\* nothing is queued: the driver returns
Finish ==
    /\ rpc = "run"
    /\ rqueue = <<>>
    /\ rpc' = "done"
    /\ UNCHANGED <<rmod, rstart, rpatterns, rqueue, rlog, rexc, rcalls, rutils,
                   notRw>>

\* the module given to the memref lowering starts with three operations
\* that no pattern accepts, producing a memref, an index and a value of the
\* memref's element type
LowerPrelude ==
    \E memref_type \in MemRefTypes :
        /\ rpc = "build"
        /\ BlockOps(rmod) = <<>>
        /\ LET mem == RwCreate(rmod, "test.op", <<>>, <<memref_type>>, {})
               idx == RwCreate(mem.rm, "test.op", <<>>, <<"index">>, {})
               val == RwCreate(idx.rm, "test.op", <<>>,
                               <<MemRefType_element_type(memref_type)>>, {})
           IN  rmod' = [val.rm EXCEPT !.h.blocks[1].ops = <<mem.ret, idx.ret, val.ret>>]
        /\ UNCHANGED <<rpc, rstart, rpatterns, rqueue, rlog, rexc, rcalls, rutils,
                       notRw>>

\* whether a memref operation can be appended to the module
CanAddMemrefOp ==
    /\ rpc = "build"
    /\ Len(rmod.h.blocks) = 1
    /\ Len(BlockOps(rmod)) >= 3
    /\ rmod.h.ops[2].op_type = "test.op"
    /\ Len(BlockOps(rmod)) < 3 + MaxRwOps

\* the results of the block's operations whose type satisfies the test
ResultsWhere(rm, Test(_)) ==
    {ResultsOf(rm.h, BlockOps(rm)[i])[1] :
        i \in {j \in 1..Len(BlockOps(rm)) :
                 /\ rm.h.ops[BlockOps(rm)[j]].result_types # <<>>
                 /\ Test(rm.h.ops[BlockOps(rm)[j]].result_types[1])}}

IsMemRefType(t) == t \in MemRefTypes

\* the operation is appended to the block
RwAppend(created) ==
    [created.rm EXCEPT !.h.blocks[1].ops = Append(@, created.ret)]

\* a load from the first memref, with the index at every dimension
AddLoad ==
    /\ CanAddMemrefOp
    /\ LET mem == ResultsOf(rmod.h, 2)[1]
           idx == ResultsOf(rmod.h, 3)[1]
       IN  rmod' = RwAppend(RwCreate(rmod, "memref.load",
                       <<mem>> \o [d \in 1..MemRefType_rank(mem.typ) |-> idx],
                       <<MemRefType_element_type(mem.typ)>>, {}))
    /\ UNCHANGED <<rpc, rstart, rpatterns, rqueue, rlog, rexc, rcalls, rutils,
                   notRw>>

\* a store to the first memref of a value of its element type
AddStore ==
    \E value \in ResultsWhere(rmod, LAMBDA t : t \notin MemRefTypes \cup {"index"}) :
        /\ CanAddMemrefOp
        /\ LET mem == ResultsOf(rmod.h, 2)[1]
               idx == ResultsOf(rmod.h, 3)[1]
           IN  rmod' = RwAppend(RwCreate(rmod, "memref.store",
                           <<value, mem>> \o [d \in 1..MemRefType_rank(mem.typ) |-> idx],
                           <<>>, {}))
        /\ UNCHANGED <<rpc, rstart, rpatterns, rqueue, rlog, rexc, rcalls, rutils,
                   notRw>>

AddAlloc ==
    /\ CanAddMemrefOp
    /\ rmod' = RwAppend(RwCreate(rmod, "memref.alloc", <<>>,
                                 rmod.h.ops[2].result_types, {}))
    /\ UNCHANGED <<rpc, rstart, rpatterns, rqueue, rlog, rexc, rcalls, rutils,
                       notRw>>

AddDealloc ==
    \E mem \in ResultsWhere(rmod, IsMemRefType) :
        /\ CanAddMemrefOp
        /\ rmod' = RwAppend(RwCreate(rmod, "memref.dealloc", <<mem>>, <<>>, {}))
        /\ UNCHANGED <<rpc, rstart, rpatterns, rqueue, rlog, rexc, rcalls, rutils,
                       notRw>>

\* ConvertMemrefToRiscvPass.apply, on a module that may hold no memref
\* operation at all
ConvertMemrefToRiscvPass_apply ==
    /\ Len(rmod.h.blocks) = 1
    /\ Len(BlockOps(rmod)) >= 3
    /\ rmod.h.ops[2].op_type = "test.op"
    /\ StartDriver({LowerPatterns})

LowerNext ==
    \/ RwAddProducer
    \/ RwAddConsumer
    \/ RewriteModuleRaising
    \/ LowerPrelude
    \/ AddLoad
    \/ AddStore
    \/ AddAlloc
    \/ AddDealloc
    \/ ConvertMemrefToRiscvPass_apply
    \/ Visit
    \/ Finish

\* the comparison predicates tried: 0..9 are those of arith.cmpi
MaxPredicate == 10

\* a module whose region has three blocks, the first with an argument of
\* type i1
CfModule ==
    LET b1 == Block_from_arg_types(EmptyMHeap, <<"i1">>)
        b2 == Block_from_arg_types(b1.h, <<"i32">>)
        b3 == Block_from_arg_types(b2.h, <<"i32">>)
        r == Region_from_block_list(b3.h, <<b1.ret, b2.ret, b3.ret>>)
    IN  [h |-> Operation_create(r.h, "Module", <<>>, <<>>, {}, <<>>, <<r.ret>>).h,
         uses |-> EmptyDict]

\* the first block starts with two integers, their comparison and another
\* boolean
CfPrelude ==
    \E predicate \in 0..MaxPredicate :
        /\ rpc = "build"
        /\ BlockOps(rmod) = <<>>
        /\ LET lhs == RwCreate(CfModule, "test.op", <<>>, <<"i32">>, {})
               rhs == RwCreate(lhs.rm, "test.op", <<>>, <<"i32">>, {})
               cmpi == RwCreate(rhs.rm, "arith.cmpi",
                                <<ResultsOf(rhs.rm.h, lhs.ret)[1],
                                  ResultsOf(rhs.rm.h, rhs.ret)[1]>>,
                                <<"i1">>, {<<"predicate", predicate>>})
               other == RwCreate(cmpi.rm, "test.op", <<>>, <<"i1">>, {})
           IN  rmod' = [other.rm EXCEPT !.h.blocks[1].ops =
                                           <<lhs.ret, rhs.ret, cmpi.ret, other.ret>>]
        /\ UNCHANGED <<rpc, rstart, rpatterns, rqueue, rlog, rexc, rcalls, rutils,
                       notRw>>

IsCfModule ==
    /\ Len(rmod.h.blocks) = 3
    /\ Len(BlockOps(rmod)) >= 4

\* the first block is ended by a conditional branch on the comparison, on
\* the other boolean or on the block's argument
AddConditionalBranch ==
    /\ rpc = "build"
    /\ IsCfModule
    /\ Len(BlockOps(rmod)) = 4
    /\ \E cond \in {ResultsOf(rmod.h, 4)[1], ResultsOf(rmod.h, 5)[1], Val("arg", 1, 0, "i1")},
          n_then \in 0..1, n_else \in 0..1 :
        /\ rmod' = RwAppend(RwCreateBranch(rmod, "cf.cond_br",
                        <<cond>> \o [i \in 1..n_then |-> ResultsOf(rmod.h, 2)[1]]
                                \o [i \in 1..n_else |-> ResultsOf(rmod.h, 3)[1]],
                        {<<"then_arguments", n_then>>, <<"else_arguments", n_else>>},
                        <<2, 3>>))
        /\ UNCHANGED <<rpc, rstart, rpatterns, rqueue, rlog, rexc, rcalls, rutils,
                       notRw>>

\* the first block is ended by a branch
AddBranch ==
    /\ rpc = "build"
    /\ IsCfModule
    /\ Len(BlockOps(rmod)) = 4
    /\ \E n \in 0..2 :
        /\ rmod' = RwAppend(RwCreateBranch(rmod, "cf.br",
                        [i \in 1..n |-> ResultsOf(rmod.h, 1 + i)[1]], {}, <<2>>))
        /\ UNCHANGED <<rpc, rstart, rpatterns, rqueue, rlog, rexc, rcalls, rutils,
                       notRw>>

\* LowerCfRiscvCfPass.apply
LowerCfRiscvCfPass_apply ==
    /\ IsCfModule
    /\ Len(BlockOps(rmod)) = 5
    /\ StartDriver({CfPatterns})

CfNext ==
    \/ CfPrelude
    \/ AddConditionalBranch
    \/ AddBranch
    \/ LowerCfRiscvCfPass_apply
    \/ Visit
    \/ Finish

RwNext ==
    \/ RwAddProducer
    \/ RwAddConsumer
    \/ RewriteModule
    \/ Visit
    \/ Finish

FoldNext ==
    \/ FoldScenario
    \/ FoldRewriteModule
    \/ Visit
    \/ Finish

Init == ListInit /\ IRIdle /\ MatchIdle /\ RwIdle

Next == ListNext

Spec == Init /\ [][Next]_vars

InitIR == IRInit /\ ListIdle /\ MatchIdle /\ RwIdle

NextIR == IRNext

SpecIR == InitIR /\ [][NextIR]_vars

SpecRebuild == InitIR /\ [][RebuildNext]_vars
SpecConvert == InitIR /\ [][ConvertNext]_vars

SpecBlockArgs == InitIR /\ [][BlockArgsNext]_vars

SpecFromOp == InitIR /\ [][FromOpNext]_vars

InitNest == NestInit /\ ListIdle /\ MatchIdle /\ RwIdle

SpecNest == InitNest /\ [][NestNext]_vars

InitWalk == WalkInit /\ ListIdle /\ MatchIdle /\ RwIdle

SpecWalk == InitWalk /\ [][WalkNext]_vars

InitMatch == MatchInit /\ ListIdle /\ IRIdle /\ RwIdle

NextMatch == MatchNext

SpecQrp == InitMatch /\ [][QrpNext]_vars

SpecSet == InitMatch /\ [][SetNext]_vars

SpecMatch == InitMatch /\ [][NextMatch]_vars

InitRewrite == RwInit /\ ListIdle /\ IRIdle /\ MatchIdle

NextRewrite == RwNext

SpecRewrite == InitRewrite /\ [][NextRewrite]_vars

\* the driver runs to completion once it is started: it is one synchronous call
SpecRewriteLive == SpecRewrite /\ WF_vars(Visit) /\ WF_vars(Finish)

SpecCf == InitRewrite /\ [][CfNext]_vars

SpecLower == InitRewrite /\ [][LowerNext]_vars

\* every module and every pattern list of the four machines
MutationNext ==
    \/ RwAddProducer
    \/ RwAddConsumer
    \/ RewriteModule
    \/ RewriteModuleByTwo
    \/ FoldScenario
    \/ FoldRewriteModule
    \/ LowerPrelude
    \/ AddLoad
    \/ AddStore
    \/ AddAlloc
    \/ AddDealloc
    \/ ConvertMemrefToRiscvPass_apply
    \/ CfPrelude
    \/ AddConditionalBranch
    \/ AddBranch
    \/ LowerCfRiscvCfPass_apply
    \/ Visit
    \/ Finish

SpecMutation == InitRewrite /\ [][MutationNext]_vars

SpecFold == InitRewrite /\ [][FoldNext]_vars

SpecFoldLive == SpecFold /\ WF_vars(Visit) /\ WF_vars(Finish)

(***************************************************************************)
(* Claims                                                                  *)
(***************************************************************************)

\* C1.  Round trip: for a module whose operands are defined before their
\* use and whose successors are blocks of the operation's own region,
\* get_immutable_copy completes, get_mutable_copy of its result completes,
\* and the copy has the same operations in the same order with the same
\* kind, name, attributes, operands and successors, values and blocks being
\* compared by position.
C1_RoundTrip ==
    /\ (irpc = "imm" /\ WellFormed(mh)) => conv.exc = NoExc
    /\ (irpc = "copied" /\ copy.target = conv.ret /\ WellFormed(mh)) =>
          /\ copy.out.exc = NoExc
          /\ Canon(copy.out.h, copy.out.ret) = Canon(mh, 1)

\* C2.  Guarded operations on a frozen IList: a call of append, extend,
\* insert, remove, pop or clear on a frozen list raises the immutability
\* exception and leaves the length and the order of the elements as they
\* were before the call.
C2_GuardedRaise ==
    [][(lst.frozen /\ lastOp' \in GuardedOps)
          => (lst' = lst /\ exc' = FrozenMsg)]_vars

C2_Witness ==
    /\ lst.frozen
    /\ lastOp \in GuardedOps
    /\ exc = FrozenMsg
    /\ Len(lst.items) = MaxLen

\* C3.  A frozen IList never changes: no operation of the list type,
\* item assignment, item and slice deletion, +=, *=, sort and reverse
\* included, changes the length, the elements or their order.
C3_FrozenUnchanged ==
    [][lst.frozen => (lst'.items = lst.items)]_vars

\* C4.  Sealed at construction: every sequence field of every IOp, IBlock
\* and IRegion that has been constructed is a frozen IList.
Sealed(h) ==
    /\ \A o \in 1..Len(h.ops) :
          /\ h.ops[o].operands.frozen
          /\ h.ops[o].results.frozen
          /\ h.ops[o].successors.frozen
          /\ h.ops[o].regions.frozen
    /\ \A b \in 1..Len(h.blocks) :
          /\ h.blocks[b].args.frozen
          /\ h.blocks[b].ops.frozen
    /\ \A r \in 1..Len(h.regions) : h.regions[r].blocks.frozen

C4_SealedAtConstruction == Sealed(conv.h) /\ Sealed(reb.out.h)

C4_Witness ==
    /\ irpc = "rebuilt"
    /\ reb.kind = "from_iblock"
    /\ Len(reb.out.h.ops) > Len(conv.h.ops)
    /\ \E o \in 1..Len(conv.h.ops) : conv.h.ops[o].operands.items # <<>>
    /\ \E o \in 1..Len(conv.h.ops) : conv.h.ops[o].regions.items # <<>>
    /\ reb.out.h.blocks[reb.out.ret].args.items # <<>>

\* C9.  Unresolved reference in get_mutable_copy: when the operation has an
\* operand that is not in the value map the call fails, and no mutable
\* operation is ever created with a placeholder standing for the operand.
C9_NoPlaceholder ==
    irpc = "copied" =>
        /\ conv.h.ops[copy.target].operands.items # <<>>
              => copy.out.exc # NoExc
        /\ \A o \in 1..Len(copy.out.h.ops) :
              \A i \in 1..Len(copy.out.h.ops[o].operands) :
                  copy.out.h.ops[o].operands[i]
                      # Placeholder(copy.out.h.ops[o].operands[i].typ)

\* C5.  Localized rebuild: IBlock.from_iblock(B.ops, B) returns a new
\* block with as many operations as B, in the same order and of the same
\* kinds, and with freshly minted arguments of the same types; an operation
\* that, with everything nested in it, has no operand among the substituted
\* values is the same object as before, and an operation that has an
\* argument of B as an operand is a new object whose operand at the same
\* position is the new argument that replaces it.  No object that existed
\* before the call is changed.
C5_LocalizedRebuild ==
    (irpc = "rebuilt" /\ reb.kind = "from_iblock") =>
        /\ reb.out.exc = NoExc
        /\ reb.out.ret > Len(conv.h.blocks)
        /\ SubSeq(reb.out.h.ops, 1, Len(conv.h.ops)) = conv.h.ops
        /\ SubSeq(reb.out.h.blocks, 1, Len(conv.h.blocks)) = conv.h.blocks
        /\ SubSeq(reb.out.h.args, 1, Len(conv.h.args)) = conv.h.args
        /\ LET B == conv.h.blocks[reb.block]
               N == reb.out.h.blocks[reb.out.ret]
           IN  /\ Len(N.ops.items) = Len(B.ops.items)
               /\ Len(N.args.items) = Len(B.args.items)
               /\ \A j \in 1..Len(B.args.items) :
                     /\ N.args.items[j].id > Len(conv.h.args)
                     /\ reb.out.h.args[N.args.items[j].id] =
                            [typ |-> B.args.items[j].typ, block |-> reb.out.ret,
                             index |-> j - 1]
               /\ \A i \in 1..Len(B.ops.items) :
                     /\ reb.out.h.ops[N.ops.items[i]].op_data
                            = conv.h.ops[B.ops.items[i]].op_data
                     /\ (\A k \in 1..Len(IOp_walk(conv.h, B.ops.items[i])) :
                            \A v \in Range(conv.h.ops[IOp_walk(conv.h, B.ops.items[i])[k]]
                                               .operands.items) :
                                VKey(v) \notin DOMAIN reb.out.env)
                          => N.ops.items[i] = B.ops.items[i]
                     /\ \A p \in 1..Len(conv.h.ops[B.ops.items[i]].operands.items),
                           j \in 1..Len(B.args.items) :
                            conv.h.ops[B.ops.items[i]].operands.items[p] = B.args.items[j]
                              => /\ N.ops.items[i] > Len(conv.h.ops)
                                 /\ reb.out.h.ops[N.ops.items[i]].operands.items[p]
                                        = N.args.items[j]

\* a block [X, Y] was rebuilt: X had the block's first argument as operand
\* and is new, Y had no operand and is the same object
C5_Witness ==
    /\ irpc = "rebuilt"
    /\ reb.kind = "from_iblock"
    /\ reb.out.exc = NoExc
    /\ LET B == conv.h.blocks[reb.block]
           N == reb.out.h.blocks[reb.out.ret]
       IN  /\ Len(B.ops.items) = 2
           /\ B.args.items # <<>>
           /\ conv.h.ops[B.ops.items[1]].operands.items = <<B.args.items[1]>>
           /\ conv.h.ops[B.ops.items[2]].operands.items = <<>>
           /\ N.ops.items[1] # B.ops.items[1]
           /\ N.ops.items[2] = B.ops.items[2]

\* C6.  Matcher soundness: Query.root(Kind).match(op) returns None when op
\* is not an instance of Kind (of the class Kind or of a subclass of it);
\* otherwise it returns a binding whose entries are exactly the declared
\* variables, here root bound to op; and a second match on the same
\* operation returns the same binding and leaves the same context.
C6_RootSoundness ==
    (mop # 0 /\ \E root_type \in Kinds : query = Query_root(root_type)) =>
        /\ query.constraints[1].n \notin Bases(MatchHeap.ops[mop].op_type)
              => mout.kind = "none"
        /\ query.constraints[1].n \in Bases(MatchHeap.ops[mop].op_type)
              => /\ mout.kind = "match"
                 /\ DOMAIN mout.match = {"root"}
                 /\ mout.match["root"] = OpVal(mop)
        /\ pout # NoMatch => /\ mout.kind = pout.kind
                             /\ mout.match = pout.match
                             /\ mout.ctx = pout.ctx

\* an Addi was matched twice against Query.root(BinaryOperation)
C6_Witness ==
    /\ mop # 0
    /\ query = Query_root("BinaryOperation")
    /\ MatchHeap.ops[mop].op_type = "Addi"
    /\ mout.kind = "match"
    /\ pout # NoMatch

\* C7.  Matcher consistency: when the second and the third constraint of a
\* query both bind the same variable to a field of the root, the query
\* matches only if the two fields hold equal values; when the values
\* differ match returns None and the variable keeps the value the earlier
\* constraint bound.
BindsFromRoot(c) ==
    /\ c.c \in {"OperationOperand", "OperationResult", "OperationAttribute"}
    /\ c.x = "root"

C7_Consistency ==
    (/\ mop # 0
     /\ Len(query.constraints) = 3
     /\ BindsFromRoot(query.constraints[2])
     /\ BindsFromRoot(query.constraints[3])
     /\ query.constraints[2].y = query.constraints[3].y
     /\ query.constraints[1].n \in Bases(MatchHeap.ops[mop].op_type)
     /\ GetAttr(MatchHeap, OpVal(mop), query.constraints[2].n).exc = NoExc
     /\ GetAttr(MatchHeap, OpVal(mop), query.constraints[3].n).exc = NoExc)
    =>
        /\ mout.kind = "match"
              => GetAttr(MatchHeap, OpVal(mop), query.constraints[2].n).v
                     = GetAttr(MatchHeap, OpVal(mop), query.constraints[3].n).v
        /\ GetAttr(MatchHeap, OpVal(mop), query.constraints[2].n).v
               # GetAttr(MatchHeap, OpVal(mop), query.constraints[3].n).v
              => /\ mout.kind = "none"
                 /\ mout.ctx[query.constraints[2].y]
                        = GetAttr(MatchHeap, OpVal(mop), query.constraints[2].n).v

\* lhs and rhs of Addi(%1, %2) were both bound to x: no match, x is %1
C7_Witness ==
    /\ mop = 4
    /\ query.constraints = <<TypeConstraint("root", "Addi"),
                             OperationOperandConstraint("root", "lhs", "x"),
                             OperationOperandConstraint("root", "rhs", "x")>>
    /\ mout.kind = "none"
    /\ mout.ctx["x"] = Val("res", 1, 0, "i32")

\* C8.  Match failure is a value: Query.match returns a binding or None and
\* never raises; when every constraint returned True and a declared
\* variable is not bound, it returns None.
C8_NeverRaises ==
    mop # 0 =>
        /\ mout.kind \in {"match", "none"}
        /\ (/\ mout.passed = Len(query.constraints)
            /\ \E name \in Range(query.variables) : name \notin DOMAIN mout.ctx)
              => mout.kind = "none"

\* C10.  Fixpoint effect: in a module where an operation a of kind A
\* produces the value that an operation b of kind B consumes, a run of the
\* driver with a pattern that replaces A by A2 ends; when it has ended a is
\* no longer in the module and an operation of kind A2 created by the run
\* stands before b, the operand of b is the result of that operation,
\* patterns were invoked on b in one visit only, and no pattern matches any
\* operation of the module.
ConsumerOf(a, b) ==
    /\ a \in Range(rstart.blocks[1].ops)
    /\ b \in Range(rstart.blocks[1].ops)
    /\ rstart.ops[a].op_type = "A"
    /\ rstart.ops[b].op_type = "B"
    /\ rstart.ops[b].operands[1] = Val("res", a, 0, "i32")

FixpointEffect(a, b) ==
    /\ a \notin Range(BlockOps(rmod))
    /\ b \in Range(BlockOps(rmod))
    /\ \E a2 \in (Len(rstart.ops) + 1)..Len(rmod.h.ops) :
          /\ rmod.h.ops[a2].op_type = "A2"
          /\ a2 \in Range(BlockOps(rmod))
          /\ IndexOf(BlockOps(rmod), a2) < IndexOf(BlockOps(rmod), b)
          /\ rmod.h.ops[b].operands[1] = Val("res", a2, 0, "i32")
          /\ <<b, 1>> \in UsesOf(rmod.uses, <<"res", a2, 0>>)
    /\ Cardinality({i \in 1..Len(rlog) : rlog[i].op = b}) = 1
    /\ \A o \in Range(BlockOps(rmod)) \cup {1}, i \in 1..Len(rpatterns) :
          \/ rmod.h.ops[o].op_type \notin {"A", "K"}
          \/ rmod.h.ops[o].op_type = "A" /\ rpatterns[i] # "ReplaceA"
          \/ rmod.h.ops[o].op_type = "K"
               /\ (rpatterns[i] # "EraseDeadK"
                     \/ \E u \in Range(BlockOps(rmod)) :
                           \E p \in 1..Len(rmod.h.ops[u].operands) :
                               rmod.h.ops[u].operands[p].id = o)

C10_FixpointEffect ==
    /\ [](\A a, b \in 1..(MaxRwOps + 1) :
            (rpc = "done" /\ "ReplaceA" \in Range(rpatterns) /\ ConsumerOf(a, b))
                => FixpointEffect(a, b))
    /\ ((rpc = "run") ~> (rpc = "done"))

\* the run on [K, A, B(A)] with the pattern ReplaceA alone has ended
C10_Witness ==
    /\ rpc = "done"
    /\ rpatterns = <<"ReplaceA">>
    /\ ConsumerOf(3, 4)
    /\ FixpointEffect(3, 4)
    /\ \E i \in 1..Len(rlog) : rlog[i].op = 3 /\ rlog[i].done

\* the module the driver started on is the folding scenario
IsFoldScenario ==
    /\ rpatterns = <<"FoldAdd">>
    /\ Len(rstart.ops) = 6
    /\ rstart.blocks[1].ops = <<2, 3, 4, 5, 6>>

\* c1 + c2 + c3, read from the module the driver started on
ScenarioSum ==
    RwValue([h |-> rstart], 2) + RwValue([h |-> rstart], 3) + RwValue([h |-> rstart], 4)

FoldedToOne ==
    /\ Len(BlockOps(rmod)) = 1
    /\ rmod.h.ops[BlockOps(rmod)[1]].op_type = "Const"
    /\ RwValue(rmod, BlockOps(rmod)[1]) = ScenarioSum
    /\ \A i \in 1..Len(BlockOps(rmod)) : rmod.h.ops[BlockOps(rmod)[i]].op_type # "Add"

\* every addition is folded: the module holds constants only, the last of
\* value c1 + c2 + c3; c1, c2, c3 and the constant that replaced r0 are
\* still there
FoldedAmongConstants ==
    /\ Len(BlockOps(rmod)) = 5
    /\ SubSeq(BlockOps(rmod), 1, 3) = SubSeq(rstart.blocks[1].ops, 1, 3)
    /\ \A i \in 1..Len(BlockOps(rmod)) : rmod.h.ops[BlockOps(rmod)[i]].op_type = "Const"
    /\ \A i \in 1..3 : RwValue(rmod, BlockOps(rmod)[i]) = RwValue([h |-> rstart], i + 1)
    /\ RwValue(rmod, BlockOps(rmod)[4]) = RwValue([h |-> rstart], 2) + RwValue([h |-> rstart], 3)
    /\ RwValue(rmod, BlockOps(rmod)[5]) = ScenarioSum
    /\ \A i \in 1..5 : Users(rmod, BlockOps(rmod)[i]) = {}

Matching ==
    {j \in 1..Len(rpatterns) : Pattern_matches(rmod, rpatterns[j], Head(rqueue))}

FirstMatching == CHOOSE j \in Matching : \A k \in Matching : j <= k

LastAttempt == rlog'[Len(rlog')]

\* C12.  Composite applier, first match wins: in an attempt on an
\* operation the patterns are invoked in registration order up to and
\* including the first that does not decline, that pattern alone rewrites,
\* the module after the attempt is the module after that one rewrite, and
\* no later pattern is invoked; when every pattern declines, all were
\* invoked and the module is unchanged.
C12_FirstMatchWins ==
    [][(rpc = "run" /\ rqueue # <<>> /\ rlog' # rlog) =>
          /\ LastAttempt.op = Head(rqueue)
          /\ Len(LastAttempt.rewrote) <= 1
          /\ IF Matching = {}
             THEN /\ LastAttempt.tried = rpatterns
                  /\ LastAttempt.rewrote = <<>>
                  /\ rmod' = rmod
             ELSE /\ LastAttempt.tried = SubSeq(rpatterns, 1, FirstMatching)
                  /\ LastAttempt.rewrote = <<rpatterns[FirstMatching]>>
                  /\ rmod' = Pattern_rewrite(rmod, rpatterns[FirstMatching],
                                             LastAttempt.op).rm]_vars

\* an operation that two patterns of the list accept was rewritten by the
\* first of them, and another was rewritten by the second after the first
\* declined
C12_Witness ==
    /\ Len(rpatterns) = 2
    /\ \E i \in 1..Len(rlog) :
          /\ rlog[i].done
          /\ rlog[i].tried = <<rpatterns[1]>>
          /\ rstart.ops[rlog[i].op].op_type = "A"
          /\ \A u \in 1..Len(rstart.ops) :
               \A p \in 1..Len(rstart.ops[u].operands) :
                   rstart.ops[u].operands[p].id # rlog[i].op
    /\ \E i \in 1..Len(rlog) : rlog[i].done /\ rlog[i].tried = rpatterns

\* every operand of every operation of the module is in the use list of
\* the value it references, and every entry of a use list is an operand of
\* an operation of the module that references the value
UseDefConsistent(rm) ==
    /\ \A u \in Range(BlockOps(rm)) :
          \A p \in 1..Len(rm.h.ops[u].operands) :
              /\ Has(rm.uses, VKey(rm.h.ops[u].operands[p]))
              /\ <<u, p>> \in rm.uses[VKey(rm.h.ops[u].operands[p])]
    /\ \A key \in DOMAIN rm.uses :
          \A use \in rm.uses[key] :
              /\ use[1] \in Range(BlockOps(rm))
              /\ use[2] \in 1..Len(rm.h.ops[use[1]].operands)
              /\ VKey(rm.h.ops[use[1]].operands[use[2]]) = key

\* the position of the operation in the block before the call
PositionBefore(call) ==
    CHOOSE k \in 1..Len(BlockOps(call.before)) : BlockOps(call.before)[k] = call.op

\* the uses of result i of the call's operation before the call
FormerUses(call, i) ==
    IF Has(call.before.uses, <<"res", call.op, i - 1>>)
    THEN call.before.uses[<<"res", call.op, i - 1>>]
    ELSE {}

ReplaceEffect(call) ==
    /\ \A i \in 1..Len(call.before.h.ops[call.op].result_types) :
          \A use \in FormerUses(call, i) :
              call.after.h.ops[use[1]].operands[use[2]] =
                  Val("res", call.new_ops[Len(call.new_ops)], i - 1,
                      call.before.h.ops[call.new_ops[Len(call.new_ops)]].result_types[i])
    /\ call.op \notin Range(BlockOps(call.after))
    /\ \A u \in Range(BlockOps(call.after)) :
          \A p \in 1..Len(call.after.h.ops[u].operands) :
              ~(call.after.h.ops[u].operands[p].k = "res"
                  /\ call.after.h.ops[u].operands[p].id = call.op)
    /\ BlockOps(call.after) =
          SubSeq(BlockOps(call.before), 1, PositionBefore(call) - 1)
            \o call.new_ops
            \o SubSeq(BlockOps(call.before), PositionBefore(call) + 1,
                      Len(BlockOps(call.before)))

InsertEffect(call) ==
    BlockOps(call.after) =
        SubSeq(BlockOps(call.before), 1, PositionBefore(call) - 1)
          \o call.new_ops
          \o SubSeq(BlockOps(call.before), PositionBefore(call),
                    Len(BlockOps(call.before)))

EraseEffect(call) ==
    BlockOps(call.after) =
        SubSeq(BlockOps(call.before), 1, PositionBefore(call) - 1)
          \o SubSeq(BlockOps(call.before), PositionBefore(call) + 1,
                    Len(BlockOps(call.before)))

\* C13.  The mutation handle keeps use lists and operands consistent: the
\* module is consistent when each call of insert-before-matched-op,
\* replace-matched-op or erase returns; after a replacement every former
\* use of the original's i-th result is the i-th result of the last
\* replacement operation, the original is out of the module and nothing in
\* the module refers to it, and the replacement operations stand in order
\* where the original stood; inserted operations stand in order just before
\* the matched operation.
C13_UseDefConsistency ==
    /\ UseDefConsistent(rmod)
    /\ \A n \in 1..Len(rcalls) :
          /\ UseDefConsistent(rcalls[n].after)
          /\ rcalls[n].kind = "replace" => ReplaceEffect(rcalls[n])
          /\ rcalls[n].kind = "insert" => InsertEffect(rcalls[n])
          /\ rcalls[n].kind = "erase" => EraseEffect(rcalls[n])

\* an operation whose result another reads was replaced by two operations,
\* after operations were inserted before it
C13_Witness ==
    \E n \in 1..Len(rcalls) :
        /\ rcalls[n].kind = "replace"
        /\ Len(rcalls[n].new_ops) = 2
        /\ FormerUses(rcalls[n], 1) # {}
        /\ \E k \in 1..(n - 1) : rcalls[k].kind = "insert" /\ Len(rcalls[k].new_ops) > 1

\* the memref type the lowering cannot handle
Unsupported(t) ==
    \/ MemRefType_element_type(t) \notin {"i32", "f32"}
    \/ MemRefType_rank(t) \notin {1, 2}

\* the patterns whose rewrite action raises: those for memref.alloc and
\* memref.dealloc, at once; those for memref.store and memref.load, which
\* reject the memref type or read a name the riscv package does not bind;
\* and the one that inserts first
RaisingPatterns ==
    {"ConvertMemrefAllocOp", "ConvertMemrefDeallocOp", "ConvertMemrefStoreOp",
     "ConvertMemrefLoadOp", "InsertThenRaise"}

\* whether the first pattern of the list that accepts the operation at the
\* head of the queue is one whose rewrite action raises
HeadRaises ==
    /\ Matching # {}
    /\ rpatterns[FirstMatching] \in RaisingPatterns

\* whether the operation at the head of the queue is a store or a load on
\* a memref the lowering handles
HeadOnSupportedMemref ==
    LET o == rmod.h.ops[Head(rqueue)]
    IN  \/ o.op_type = "memref.load" /\ ~Unsupported(o.operands[1].typ)
        \/ o.op_type = "memref.store" /\ ~Unsupported(o.operands[2].typ)

\* the exception the rewrite action raises on the operation at the head
HeadException ==
    IF HeadOnSupportedMemref THEN AttributeError ELSE DiagnosticException

\* the calls on the handle that the rewrite action completes before it
\* raises: none for alloc and dealloc, one insert for the pattern that
\* inserts first, and for a store or a load on a memref the lowering
\* handles the insert of the pointer operations last (114, 135)
CallsBeforeRaise(calls) ==
    /\ \A n \in 1..Len(calls) : calls[n].kind = "insert"
    /\ rmod.h.ops[Head(rqueue)].op_type \in {"memref.alloc", "memref.dealloc"}
          => calls = <<>>
    /\ rpatterns[FirstMatching] = "InsertThenRaise" => Len(calls) = 1
    /\ HeadOnSupportedMemref =>
          /\ calls # <<>>
          /\ LET ops == calls[Len(calls)].new_ops
             IN  /\ ops # <<>>
                 /\ calls[Len(calls)].after.h.ops[ops[Len(ops)]].op_type = "riscv.add"

\* the calls that completed during the visit are each fully applied, and
\* the module is what the last of them left
CompletedCallsOnly ==
    /\ \A n \in 1..Len(rcalls') :
          /\ UseDefConsistent(rcalls'[n].after)
          /\ rcalls'[n].kind = "insert" => InsertEffect(rcalls'[n])
          /\ rcalls'[n].kind = "replace" => ReplaceEffect(rcalls'[n])
          /\ n > 1 => BlockOps(rcalls'[n].before) = BlockOps(rcalls'[n - 1].after)
    /\ rmod' = IF rcalls' = <<>> THEN rmod ELSE rcalls'[Len(rcalls')].after
    /\ rcalls' # <<>> => BlockOps(rcalls'[1].before) = BlockOps(rmod)

\* C14.  An exception raised by a pattern's rewrite action during a run
\* of the driver reaches the driver's caller: the run stops with that
\* exception, the module is what the calls on the handle that completed
\* before the raise left, each fully applied and with consistent use
\* lists (the matched operation is still in the module), what earlier
\* visits did stays done, and the driver touches nothing afterwards; a
\* visit whose action does not raise does not end the run.
C14_ErrorsPropagate ==
    /\ [][(rpc = "run" /\ rqueue # <<>>) =>
            IF HeadRaises
            THEN /\ rpc' = "raised"
                 /\ rexc' = HeadException
                 /\ CallsBeforeRaise(rcalls')
                 /\ CompletedCallsOnly
                 /\ UseDefConsistent(rmod')
                 /\ Head(rqueue) \in Range(BlockOps(rmod'))
            ELSE /\ rpc' = "run"
                 /\ rexc' = NoExc]_vars
    /\ [][rpc = "raised" => (rpc' = "raised" /\ rmod' = rmod /\ rexc' = rexc)]_vars

\* the rewrite action raised after it had inserted an operation before the
\* matched one, in a run in which an earlier visit had erased an operation
C14_Witness ==
    /\ rpc = "raised"
    /\ rexc = DiagnosticException
    /\ Len(rcalls) = 1
    /\ rcalls[1].kind = "insert"
    /\ rpatterns = <<"EraseDeadK", "InsertThenRaise">>
    /\ \E i \in 1..(Len(rlog) - 1) : rlog[i].done
    /\ Len(BlockOps(rmod)) = Len(rstart.blocks[1].ops)
    /\ BlockOps(rmod) # rstart.blocks[1].ops

\* C15.  A conditional branch the lowering cannot handle is reported by
\* a diagnostic exception: whenever a run of the branch lowering is ended
\* by an exception, the exception is a DiagnosticException, not a failed
\* assertion.
C15_CatchableDiagnostic ==
    rpc = "raised" => rexc = DiagnosticException

(***************************************************************************)
(* C17: the order of a traversal.                                          *)
(***************************************************************************)
\* the operations directly in the blocks of the regions of an operation, in
\* region, block and operation order
IChildren(h, op) ==
    Concat([r \in 1..Len(h.ops[op].regions.items) |->
        Concat([b \in 1..Len(h.regions[h.ops[op].regions.items[r]].blocks.items) |->
            h.blocks[h.regions[h.ops[op].regions.items[r]].blocks.items[b]].ops.items])])

RECURSIVE INestedIn(_, _, _)
INestedIn(h, S, n) ==
    IF n = 0 THEN S
    ELSE INestedIn(h, S \cup UNION {Range(IChildren(h, o)) : o \in S}, n - 1)

\* an operation and everything nested in it, at any depth
INestedEq(h, op) == INestedIn(h, {op}, Len(h.ops))

\* the operations a traversal starts from, in order
WalkRoots(h, kind, target) ==
    CASE kind = "op" -> <<target>>
      [] kind = "block" -> h.blocks[target].ops.items
      [] kind = "region" ->
            Concat([b \in 1..Len(h.regions[target].blocks.items) |->
                       h.blocks[h.regions[target].blocks.items[b]].ops.items])

\* x comes before y in a depth-first, parent-first traversal from roots: y is
\* nested in x, or they lie under two different operations of one list and
\* the one over x comes first in that list
OrderedUnder(h, ops, x, y) ==
    \E i \in 1..Len(ops) : \E j \in (i + 1)..Len(ops) :
        x \in INestedEq(h, ops[i]) /\ y \in INestedEq(h, ops[j])

PreOrderBefore(h, roots, x, y) ==
    /\ x # y
    /\ \/ y \in INestedEq(h, x)
       \/ OrderedUnder(h, roots, x, y)
       \/ \E a \in 1..Len(h.ops) : OrderedUnder(h, IChildren(h, a), x, y)

IsPreOrder(h, roots, visited) ==
    /\ Range(visited) = UNION {INestedEq(h, roots[i]) : i \in 1..Len(roots)}
    /\ Len(visited) = Cardinality(Range(visited))
    /\ \A i \in 1..Len(visited) : \A j \in (i + 1)..Len(visited) :
           PreOrderBefore(h, roots, visited[i], visited[j])

\* C17: walk calls fun on the operation first, then on every operation
\* nested in its regions, depth-first in region, block and operation order,
\* on each exactly once
C17_WalkPreOrder ==
    irpc = "walked" =>
        /\ walked.kind = "op" => walked.visited[1] = walked.target
        /\ IsPreOrder(conv.h, WalkRoots(conv.h, walked.kind, walked.target),
                      walked.visited)

\* the module was walked, and it holds an operation with an operation nested
\* in it and an operation after it
C17_Witness ==
    /\ irpc = "walked"
    /\ walked.kind = "op"
    /\ walked.target = conv.ret
    /\ Len(walked.visited) = 4
    /\ \E i \in 2..3 :
          /\ walked.visited[i + 1] \in Range(IChildren(conv.h, walked.visited[i]))
          /\ i = 2
          /\ walked.visited[4] \in Range(IChildren(conv.h, walked.target))

(***************************************************************************)
(* C18: the abortable traversal.                                           *)
(***************************************************************************)
\* the positions of a sequence of visits at which the visitor stops
StopsAt(visited, stops) == {i \in 1..Len(visited) : visited[i] \in stops}

Min(S) == CHOOSE i \in S : \A j \in S : i <= j

\* what an abortable traversal does, given the visits of the plain one: the
\* same visits up to the first operation the visitor stops on, and False;
\* all of them and True when it stops on none
AbortsAtFirstStop(visited, stops, w) ==
    IF StopsAt(visited, stops) = {}
    THEN w.visited = visited /\ w.ret
    ELSE w.visited = SubSeq(visited, 1, Min(StopsAt(visited, stops))) /\ ~w.ret

\* C18: walk_abortable visits in the order of walk; once the visitor returns
\* False it is called on no further operation and the call returns False; the
\* call returns True exactly when the visitor returned True on every operation
C18_WalkAbortable ==
    irpc = "walked" =>
        \A stops \in DOMAIN walked.abortable :
            /\ AbortsAtFirstStop(walked.visited, stops, walked.abortable[stops])
            /\ walked.abortable[stops].ret <=>
                   \A i \in 1..Len(walked.abortable[stops].visited) :
                       walked.abortable[stops].visited[i] \notin stops

\* the module was walked by a visitor that stops on an operation nested in
\* the module's first operation, which has an operation after it
C18_Witness ==
    /\ irpc = "walked"
    /\ walked.kind = "op"
    /\ walked.target = conv.ret
    /\ Len(walked.visited) = 4
    /\ walked.visited[3] \in Range(IChildren(conv.h, walked.visited[2]))
    /\ walked.visited[4] \in Range(IChildren(conv.h, walked.target))
    /\ {walked.visited[3]} \in DOMAIN walked.abortable
    /\ walked.abortable[{walked.visited[3]}] =
           WOut(SubSeq(walked.visited, 1, 3), FALSE)

(***************************************************************************)
(* C19: the OpData record of an operation built by from_op.                *)
(***************************************************************************)
\* the operation a call of from_op built: the last one of the list returned
FromOpBuilt == reb.out.ret[Len(reb.out.ret)]

\* a block rebuilt by from_iblock holds, position by position, operations
\* with the OpData records of the operations of the old block
RebuiltSharesOpData ==
    /\ Len(reb.out.h.blocks[reb.out.ret].ops.items) =
           Len(conv.h.blocks[reb.block].ops.items)
    /\ \A i \in 1..Len(conv.h.blocks[reb.block].ops.items) :
           reb.out.h.ops[reb.out.h.blocks[reb.out.ret].ops.items[i]].op_data =
               conv.h.ops[conv.h.blocks[reb.block].ops.items[i]].op_data

\* C19: from_op without attributes returns a new operation with the OpData
\* record of the old one, whatever else is overridden, and so does
\* from_iblock for every operation it rebuilds; from_op with attributes
\* returns an operation with the old name and kind and the given attributes
C19_SharedOpData ==
    (irpc = "rebuilt" /\ reb.out.exc = NoExc) =>
        /\ reb.kind = "from_op" =>
              /\ FromOpBuilt = Len(conv.h.ops) + 1
              /\ reb.args.attributes = "none" =>
                    /\ reb.out.h.ops[FromOpBuilt].op_data = conv.h.ops[reb.block].op_data
                    /\ reb.out.h.datas = conv.h.datas
              /\ reb.args.attributes # "none" =>
                    reb.out.h.datas[reb.out.h.ops[FromOpBuilt].op_data] =
                        [name |-> conv.h.datas[conv.h.ops[reb.block].op_data].name,
                         op_type |-> conv.h.datas[conv.h.ops[reb.block].op_data].op_type,
                         attributes |-> GivenAttributes(reb.args.attributes).v]
        /\ reb.kind = "from_iblock" =>
              /\ RebuiltSharesOpData
              /\ reb.out.h.datas = conv.h.datas

\* from_op was called without attributes on an operation with attributes,
\* with other operands and result types, and built a new operation
C19_Witness ==
    /\ irpc = "rebuilt"
    /\ reb.kind = "from_op"
    /\ reb.out.exc = NoExc
    /\ reb.args.attributes = "none"
    /\ reb.args.operands.some
    /\ reb.args.result_types.some
    /\ conv.h.datas[conv.h.ops[reb.block].op_data].attributes # {}
    /\ reb.out.h.ops[FromOpBuilt].operands # conv.h.ops[reb.block].operands
    /\ reb.out.h.ops[FromOpBuilt].results.items # <<>>
    /\ reb.out.h.ops[FromOpBuilt].op_data = conv.h.ops[reb.block].op_data

(***************************************************************************)
(* C20: the list returned by nested new_op and from_op calls.              *)
(***************************************************************************)
\* the operations of the lists among the operands of a call
ListOperandOps(operands) ==
    UNION {Range(operands[i].ops) :
              i \in {j \in 1..Len(operands) : operands[j].k = "list"}}

\* every operation of the list stands after the operations of the list
\* whose results it has as operands
DefinedBeforeUse(h, ops) ==
    \A i \in 1..Len(ops) : \A p \in 1..Len(h.ops[ops[i]].operands.items) :
        (h.ops[ops[i]].operands.items[p].k = "res"
            /\ h.ops[ops[i]].operands.items[p].id \in Range(ops))
        => IndexOf(ops, h.ops[ops[i]].operands.items[p].id) < i

\* the list a call returned holds the operations of its list operands and
\* the operation it built, each once, the operation it built last
InsertsEachOnce(h, call) ==
    /\ Range(call.ret) = ListOperandOps(call.operands) \cup {Len(h.ops)}
    /\ Cardinality(Range(call.ret)) = Len(call.ret)
    /\ call.ret[Len(call.ret)] = Len(h.ops)

\* C20: the list returned by a call in a nesting of new_op and from_op calls
\* holds every newly built operation exactly once, the operation of this
\* call last, and every operation after the operations of the list whose
\* results it uses
C20_InsertionList ==
    (irpc = "nest" /\ nest.last.kind # "none" /\ nest.last.exc = NoExc) =>
        /\ InsertsEachOnce(nest.h, nest.last)
        /\ DefinedBeforeUse(nest.h, nest.last.ret)

\* the same for the nestings in which every newly built operation is handed
\* on as the list its call returned, never as the bare operation
C20_InsertionListOfLists ==
    (irpc = "nest" /\ nest.last.kind # "none" /\ nest.last.exc = NoExc
        /\ nest.refs = {}) =>
        /\ InsertsEachOnce(nest.h, nest.last)
        /\ DefinedBeforeUse(nest.h, nest.last.ret)

\* a call was given two lists that share an operation
C20_WitnessOfLists ==
    /\ irpc = "nest"
    /\ nest.last.exc = NoExc
    /\ nest.refs = {}
    /\ Len(nest.last.operands) = 2
    /\ nest.last.operands[1].k = "list"
    /\ nest.last.operands[2].k = "list"
    /\ nest.last.operands[1] # nest.last.operands[2]
    /\ Range(nest.last.operands[1].ops) \cap Range(nest.last.operands[2].ops) # {}
    /\ Len(nest.last.ret) = 3

(***************************************************************************)
(* C21: an operand given as a single operation that is not yet inserted.   *)
(***************************************************************************)
\* the positions at which the last call was given a newly built operation,
\* not wrapped in a list
BareOperands(call) ==
    {i \in 1..Len(call.operands) :
        call.operands[i].k = "op" /\ call.operands[i].id # 1}

\* the operand the built operation has at a position is the first result of
\* the operation given there
ThreadsFirstResult(h, call, i) ==
    VKey(h.ops[Len(h.ops)].operands.items[i]) =
        VKey(h.ops[call.operands[i].id].results.items[1])

\* C21: when an operand of new_op or from_op is a single not-yet-inserted
\* operation, the built operation has that operation's first result as
\* operand, and the operation is in the returned list before the built one
C21_SingleOperation ==
    (irpc = "nest" /\ nest.last.kind # "none" /\ nest.last.exc = NoExc) =>
        \A i \in BareOperands(nest.last) :
            /\ ThreadsFirstResult(nest.h, nest.last, i)
            /\ nest.last.operands[i].id \in Range(nest.last.ret)
            /\ IndexOf(nest.last.ret, nest.last.operands[i].id) < Len(nest.last.ret)

\* the part of C21 that holds: the first result is threaded through
C21_ThreadsFirstResult ==
    (irpc = "nest" /\ nest.last.kind # "none" /\ nest.last.exc = NoExc) =>
        \A i \in BareOperands(nest.last) : ThreadsFirstResult(nest.h, nest.last, i)

(***************************************************************************)
(* C22: Variable.set.                                                      *)
(***************************************************************************)
\* the bindings of all names but one are the same in two contexts
SameButFor(before, after, name) ==
    /\ DOMAIN after \ {name} = DOMAIN before \ {name}
    /\ \A other \in DOMAIN before \ {name} : after[other] = before[other]

\* C22: Variable.set on an unbound name binds it to the value and succeeds;
\* on a bound name it succeeds exactly when the value equals the one bound,
\* and leaves that binding as it was; the other bindings stay in both cases
C22_SetUnifies ==
    vset.out.exc = NoExc =>
        /\ SameButFor(vset.before, vset.out.ctx, vset.c.y)
        /\ ~Has(vset.before, vset.c.y) =>
              /\ vset.out.ok
              /\ Has(vset.out.ctx, vset.c.y)
              /\ vset.out.ctx[vset.c.y] = vset.val
        /\ Has(vset.before, vset.c.y) =>
              /\ vset.out.ok <=> (vset.val = vset.before[vset.c.y])
              /\ Has(vset.out.ctx, vset.c.y)
              /\ vset.out.ctx[vset.c.y] = vset.before[vset.c.y]

\* a name bound to one value was set to another value: the set failed
C22_Witness ==
    /\ vset.out.exc = NoExc
    /\ Has(vset.before, vset.c.y)
    /\ vset.val # vset.before[vset.c.y]
    /\ ~vset.out.ok
    /\ Cardinality(DOMAIN vset.before) >= 3

(***************************************************************************)
(* C23: the order in which Query.match evaluates the constraints.          *)
(***************************************************************************)
\* the context after the first k constraints were evaluated one after the
\* other, from the context in which only root is bound
RECURSIVE CtxAfter(_)
CtxAfter(k) ==
    IF k = 0 THEN Put(EmptyDict, "root", OpVal(mop))
    ELSE Constraint_match(MatchHeap, query.constraints[k], CtxAfter(k - 1)).ctx

\* what constraint k does when evaluated after the k - 1 before it
StepK(k) == Constraint_match(MatchHeap, query.constraints[k], CtxAfter(k - 1))

\* C23: Query.match evaluates the constraints in declaration order from the
\* context with only root bound; it returns None at the first constraint
\* that fails and evaluates none after it
C23_DeclarationOrder ==
    (mop # 0 /\ mout.kind \in {"match", "none"}) =>
        /\ mout.passed <= Len(query.constraints)
        /\ \A k \in 1..mout.passed : StepK(k).exc = NoExc /\ StepK(k).ok
        /\ mout.kind = "match" =>
              /\ mout.passed = Len(query.constraints)
              /\ mout.ctx = CtxAfter(mout.passed)
        /\ (mout.kind = "none" /\ mout.passed < Len(query.constraints)) =>
              /\ StepK(mout.passed + 1).exc = NoExc
              /\ ~StepK(mout.passed + 1).ok
              /\ mout.ctx = CtxAfter(mout.passed + 1)

\* the first of three constraints failed, and the second, which would have
\* bound a variable in the context left, was not evaluated
C23_Witness ==
    /\ mop # 0
    /\ mout.kind = "none"
    /\ Len(query.constraints) = 3
    /\ mout.passed = 0
    /\ query.constraints[2].y # ""
    /\ ~Has(mout.ctx, query.constraints[2].y)
    /\ Constraint_match(MatchHeap, query.constraints[2], mout.ctx).exc = NoExc
    /\ Constraint_match(MatchHeap, query.constraints[2], mout.ctx).ok

(***************************************************************************)
(* C25: the pattern built from a query.                                    *)
(***************************************************************************)
\* what Query.match returns on the operation the pattern ran on
MatchOfPattern == Query_match(MatchHeap, query, qrp.op, EmptyDict)

\* C25: match_and_rewrite does not call the rewrite action and changes
\* nothing through the handle when the query does not match; when it
\* matches, the action is called once, with the match and the handle
C25_QueryPattern ==
    qrp.op # 0 =>
        /\ MatchOfPattern.kind = "none" =>
              /\ qrp.out.exc = NoExc
              /\ qrp.out.invoked = <<>>
              /\ qrp.out.rewriter = NewHandle
        /\ MatchOfPattern.kind = "match" =>
              /\ qrp.out.exc = NoExc
              /\ qrp.out.invoked =
                     <<[match |-> MatchOfPattern.match, rewriter |-> NewHandle]>>

\* the pattern ran on an operation its query of three constraints does not
\* match, after two of them had passed
C25_Witness ==
    /\ qrp.op # 0
    /\ Len(query.constraints) = 3
    /\ MatchOfPattern.kind = "none"
    /\ MatchOfPattern.passed = 2
    /\ qrp.out.invoked = <<>>

\* the pattern ran on an operation its query matches with two variables
\* bound besides root
C25_WitnessMatch ==
    /\ qrp.op # 0
    /\ MatchOfPattern.kind = "match"
    /\ Cardinality(DOMAIN MatchOfPattern.match) = 3
    /\ Len(qrp.out.invoked) = 1
    /\ qrp.out.rewriter.calls = <<<<"erase_op", OpVal(qrp.op)>>>>

(***************************************************************************)
(* C24: the block and the index of a block argument.                       *)
(***************************************************************************)
\* every argument of every block of a heap has that block as its block and
\* its position as its index
ArgsOwned(h) ==
    \A b \in 1..Len(h.blocks) : \A i \in 1..Len(h.blocks[b].args.items) :
        /\ h.args[h.blocks[b].args.items[i].id].block = b
        /\ h.args[h.blocks[b].args.items[i].id].index = i - 1

\* C24: after from_mutable, after from_iblock and after the construction of
\* another IBlock from existing block arguments, every argument of every
\* block has that block as its block and its position as its index
C24_ArgOwnership ==
    /\ (irpc \in {"imm", "rebuilt"} /\ conv.exc = NoExc) => ArgsOwned(conv.h)
    /\ (irpc = "rebuilt" /\ reb.kind \in {"from_iblock", "iblock"}
           /\ reb.out.exc = NoExc) => ArgsOwned(reb.out.h)

\* the part of C24 that holds: from_mutable and from_iblock leave every
\* argument with its block and index
C24_ArgOwnershipRebuilt ==
    /\ (irpc \in {"imm", "rebuilt"} /\ conv.exc = NoExc) => ArgsOwned(conv.h)
    /\ (irpc = "rebuilt" /\ reb.kind = "from_iblock" /\ reb.out.exc = NoExc)
          => ArgsOwned(reb.out.h)

(***************************************************************************)
(* C26: the references left after from_iblock.                             *)
(***************************************************************************)
\* the operations in a block, at any depth
IBlockTree(h, block) ==
    UNION {INestedEq(h, h.blocks[block].ops.items[i]) :
              i \in 1..Len(h.blocks[block].ops.items)}

\* the operations of the old block, at any depth, that are not in the new
\* block: those that were rebuilt
RebuiltOps ==
    IBlockTree(conv.h, reb.block) \ IBlockTree(reb.out.h, reb.out.ret)

\* the values that must not be referred to from the new block
StaleKeys ==
    {VKey(conv.h.blocks[reb.block].args.items[i]) :
        i \in 1..Len(conv.h.blocks[reb.block].args.items)}
      \cup UNION {{VKey(conv.h.ops[o].results.items[i]) :
                     i \in 1..Len(conv.h.ops[o].results.items)} : o \in RebuiltOps}

\* the new block has arguments of the types of the old block's, in order,
\* none of which existed before
FreshArgs(B, N) ==
    /\ Len(N.args.items) = Len(B.args.items)
    /\ \A i \in 1..Len(B.args.items) :
          /\ N.args.items[i].typ = B.args.items[i].typ
          /\ reb.out.h.args[N.args.items[i].id].typ = B.args.items[i].typ
          /\ N.args.items[i].id > Len(conv.h.args)
    /\ \A i \in 1..Len(N.args.items) : \A j \in 1..Len(N.args.items) :
          N.args.items[i].id = N.args.items[j].id => i = j

\* env maps every old argument to the new one, and every result of a
\* rebuilt operation to the result with the same index of a new operation of
\* the new block with the same OpData; for an operation of the old block
\* itself that is the operation at the same position
EnvMapsOldToNew(B, N) ==
    /\ \A i \in 1..Len(B.args.items) :
          /\ Has(reb.out.env, VKey(B.args.items[i]))
          /\ reb.out.env[VKey(B.args.items[i])] = N.args.items[i]
    /\ \A o \in RebuiltOps : \A i \in 1..Len(conv.h.ops[o].results.items) :
          /\ Has(reb.out.env, VKey(conv.h.ops[o].results.items[i]))
          /\ LET w == reb.out.env[VKey(conv.h.ops[o].results.items[i])]
             IN  /\ w.k = "res"
                 /\ w.id > Len(conv.h.ops)
                 /\ w.id \in IBlockTree(reb.out.h, reb.out.ret)
                 /\ w = reb.out.h.ops[w.id].results.items[i]
                 /\ reb.out.h.ops[w.id].op_data = conv.h.ops[o].op_data
                 /\ \A p \in 1..Len(B.ops.items) :
                       B.ops.items[p] = o => N.ops.items[p] = w.id

\* every operand of an operation of the block, at any depth, that is a
\* result of an operation of the block is a result of an operation that
\* ends before the using one begins: the two lie under different
\* operations of one list, the defining one first
DefinitionsPrecedeUses(h, block) ==
    \A u \in IBlockTree(h, block) : \A p \in 1..Len(h.ops[u].operands.items) :
        LET v == h.ops[u].operands.items[p]
        IN  (v.k = "res" /\ v.id \in IBlockTree(h, block)) =>
                \/ OrderedUnder(h, h.blocks[block].ops.items, v.id, u)
                \/ \E a \in IBlockTree(h, block) :
                       OrderedUnder(h, IChildren(h, a), v.id, u)

\* what from_iblock leaves: fresh arguments, no stale operand, env complete
RebuildPost ==
    /\ FreshArgs(conv.h.blocks[reb.block], reb.out.h.blocks[reb.out.ret])
    /\ \A o \in IBlockTree(reb.out.h, reb.out.ret) :
          \A p \in 1..Len(reb.out.h.ops[o].operands.items) :
              VKey(reb.out.h.ops[o].operands.items[p]) \notin StaleKeys
    /\ EnvMapsOldToNew(conv.h.blocks[reb.block], reb.out.h.blocks[reb.out.ret])

\* C26 as amended: when in B every result of an operation of B is used only
\* after that operation, from_iblock(B.ops, B, env) returns a block with
\* fresh arguments of the types of B's; no operation in it, at any depth,
\* has an argument of B or a result of a rebuilt operation as operand; env
\* maps every old argument and every result of a rebuilt operation to the
\* new one
C26_NoStaleReferenceOrdered ==
    (irpc = "rebuilt" /\ reb.kind = "from_iblock_env" /\ reb.out.exc = NoExc
        /\ DefinitionsPrecedeUses(conv.h, reb.block)) => RebuildPost

\* C26 as stated, for every block: from_iblock(B.ops, B, env) returns a block with fresh arguments of
\* the types of B's; no operation in it, at any depth, has an argument of B
\* or a result of a rebuilt operation as operand; env maps every old
\* argument and every result of a rebuilt operation to the new one
C26_NoStaleReference ==
    (irpc = "rebuilt" /\ reb.kind = "from_iblock_env" /\ reb.out.exc = NoExc) =>
        /\ FreshArgs(conv.h.blocks[reb.block], reb.out.h.blocks[reb.out.ret])
        /\ \A o \in IBlockTree(reb.out.h, reb.out.ret) :
              \A p \in 1..Len(reb.out.h.ops[o].operands.items) :
                  VKey(reb.out.h.ops[o].operands.items[p]) \notin StaleKeys
        /\ EnvMapsOldToNew(conv.h.blocks[reb.block], reb.out.h.blocks[reb.out.ret])

\* the rebuilt block held an operation with an argument of the block as
\* operand and an operation using the result of that operation
C26_Witness ==
    /\ irpc = "rebuilt"
    /\ reb.kind = "from_iblock_env"
    /\ reb.out.exc = NoExc
    /\ LET B == conv.h.blocks[reb.block]
       IN  /\ Len(B.ops.items) = 2
           /\ B.args.items # <<>>
           /\ conv.h.ops[B.ops.items[1]].operands.items = <<B.args.items[1]>>
           /\ conv.h.ops[B.ops.items[2]].operands.items =
                  <<conv.h.ops[B.ops.items[1]].results.items[1]>>
           /\ RebuiltOps = {B.ops.items[1], B.ops.items[2]}
(***************************************************************************)
(* C27: what from_iblock reuses.                                           *)
(***************************************************************************)
\* some operation in the block, at any depth, has an operand that is a key
\* of env
AffectedBlock(h, block, env) ==
    \E o \in IBlockTree(h, block) : \E p \in 1..Len(h.ops[o].operands.items) :
        Has(env, VKey(h.ops[o].operands.items[p]))

AffectedRegion(h, region, env) ==
    \E b \in 1..Len(h.regions[region].blocks.items) :
        AffectedBlock(h, h.regions[region].blocks.items[b], env)

\* new block N stands for old block B: under every operation of B that was
\* replaced, a region without an affected operation is the old region and a
\* replaced region holds, block by block, the old block where it has no
\* affected operation and a new block, built the same way, only where it
\* has one
RECURSIVE ReusesUntouched(_, _, _, _)
ReusesUntouched(h, B, N, n) ==
    \/ n = 0
    \/ /\ Len(h.blocks[N].ops.items) = Len(h.blocks[B].ops.items)
       /\ \A p \in 1..Len(h.blocks[B].ops.items) :
            LET o == h.blocks[B].ops.items[p]
                o2 == h.blocks[N].ops.items[p]
            IN  o2 # o =>
                  /\ Len(h.ops[o2].regions.items) = Len(h.ops[o].regions.items)
                  /\ \A r \in 1..Len(h.ops[o].regions.items) :
                       LET R == h.ops[o].regions.items[r]
                           R2 == h.ops[o2].regions.items[r]
                       IN  /\ ~AffectedRegion(h, R, reb.out.env) => R2 = R
                           /\ R2 # R =>
                                /\ R2 > Len(conv.h.regions)
                                /\ Len(h.regions[R2].blocks.items)
                                      = Len(h.regions[R].blocks.items)
                                /\ \A b \in 1..Len(h.regions[R].blocks.items) :
                                     LET K == h.regions[R].blocks.items[b]
                                         K2 == h.regions[R2].blocks.items[b]
                                     IN  /\ ~AffectedBlock(h, K, reb.out.env)
                                              => K2 = K
                                         /\ K2 # K =>
                                              /\ AffectedBlock(h, K, reb.out.env)
                                              /\ K2 > Len(conv.h.blocks)
                                              /\ ReusesUntouched(h, K, K2, n - 1)

\* C27: under an operation that from_iblock rebuilds, a nested region in
\* which no operation at any depth has an operand that is a key of the
\* substitution map is reused as the same region; in a region that is
\* rebuilt, a block with no such operation is reused as the same block, and
\* only blocks with such an operation are replaced by new ones
C27_ReusesUntouched ==
    (irpc = "rebuilt" /\ reb.kind = "from_iblock_env" /\ reb.out.exc = NoExc) =>
        ReusesUntouched(reb.out.h, reb.block, reb.out.ret, RecursionLimit)

\* the rebuilt block held an operation with a region of two blocks, the
\* first with an operation using an argument of the rebuilt block and the
\* second with none: the region was replaced, its first block too, and its
\* second block is the old one
C27_Witness ==
    /\ irpc = "rebuilt"
    /\ reb.kind = "from_iblock_env"
    /\ reb.out.exc = NoExc
    /\ \E p \in 1..Len(conv.h.blocks[reb.block].ops.items) :
          LET h == reb.out.h
              o == h.blocks[reb.block].ops.items[p]
              o2 == h.blocks[reb.out.ret].ops.items[p]
          IN  /\ o2 # o
              /\ Len(h.ops[o].regions.items) = 1
              /\ LET R == h.ops[o].regions.items[1]
                     R2 == h.ops[o2].regions.items[1]
                 IN  /\ R2 # R
                     /\ Len(h.regions[R].blocks.items) = 2
                     /\ h.regions[R2].blocks.items[1] # h.regions[R].blocks.items[1]
                     /\ h.regions[R2].blocks.items[2] = h.regions[R].blocks.items[2]

\* the rebuilt block held an operation with an argument of the block as
\* operand and a region with an operation that uses nothing of the block:
\* the operation was replaced and the new one holds the old region
C27_WitnessRegion ==
    /\ irpc = "rebuilt"
    /\ reb.kind = "from_iblock_env"
    /\ reb.out.exc = NoExc
    /\ \E p \in 1..Len(conv.h.blocks[reb.block].ops.items) :
          LET h == reb.out.h
              o == h.blocks[reb.block].ops.items[p]
              o2 == h.blocks[reb.out.ret].ops.items[p]
          IN  /\ o2 # o
              /\ Len(h.ops[o].regions.items) = 1
              /\ h.ops[o2].regions.items = h.ops[o].regions.items
              /\ IChildren(h, o) # <<>>
(***************************************************************************)
(* C30: the operations from_mutable makes for one mutable operation.       *)
(***************************************************************************)
\* the value is one that value_map holds for some value of the module
RecordedInValueMap(v) ==
    \E key \in DOMAIN conv.value_map : conv.value_map[key] = v

\* C30: in a conversion of a module without branches, every mutable
\* operation is converted into one immutable operation, and every operand
\* that is a result is the value that value_map records for the producer's
\* result
C30_OneIOpPerOperation ==
    (irpc = "imm" /\ conv.exc = NoExc) =>
        /\ Len(conv.h.ops) = Len(mh.ops)
        /\ \A o \in 1..Len(conv.h.ops) :
              \A p \in 1..Len(conv.h.ops[o].operands.items) :
                  conv.h.ops[o].operands.items[p].k = "res"
                      => RecordedInValueMap(conv.h.ops[o].operands.items[p])

\* the part of C30 that holds: an operand whose producer was converted
\* before the using operation is the value recorded for it, so a module in
\* which every producer comes first is converted operation for operation
C30_ProducerFirst ==
    (irpc = "imm" /\ conv.exc = NoExc /\ Len(conv.h.ops) = Len(mh.ops)) =>
        \A o \in 1..Len(conv.h.ops) :
            \A p \in 1..Len(conv.h.ops[o].operands.items) :
                conv.h.ops[o].operands.items[p].k = "res"
                    => RecordedInValueMap(conv.h.ops[o].operands.items[p])
(***************************************************************************)
(* C29: the blocks from_mutable makes for one mutable block.               *)
(***************************************************************************)
\* every successor of every operation of the module is a block of the
\* region the operation's block lies in
SuccessorsInOwnRegion(m) ==
    \A r \in 1..Len(m.regions) : \A b \in 1..Len(m.regions[r].blocks) :
        LET ops == m.blocks[m.regions[r].blocks[b]].ops
        IN  \A i \in 1..Len(ops) : \A s \in 1..Len(m.ops[ops[i]].successors) :
                m.ops[ops[i]].successors[s] \in Range(m.regions[r].blocks)

\* some operation of the module has a successor
HasSuccessor(m) == \E o \in 1..Len(m.ops) : m.ops[o].successors # <<>>

\* C29: after a conversion of a module whose successors are blocks of the
\* branching operation's own region, every successor of an operation in a
\* block of a converted region is a block of that region's list, block_map
\* records a block of a region's list for every successor, and there is
\* one immutable block for each mutable block
C29_OneIBlockPerBlock ==
    (irpc = "imm" /\ conv.exc = NoExc /\ SuccessorsInOwnRegion(mh)) =>
        /\ Len(conv.h.blocks) = Len(mh.blocks)
        /\ \A g \in 1..Len(conv.h.regions) :
              \A b \in 1..Len(conv.h.regions[g].blocks.items) :
                  LET ops == conv.h.blocks[conv.h.regions[g].blocks.items[b]].ops.items
                  IN  \A i \in 1..Len(ops) :
                          Range(conv.h.ops[ops[i]].successors.items)
                              \subseteq Range(conv.h.regions[g].blocks.items)
        /\ \A S \in DOMAIN conv.block_map :
              \E g \in 1..Len(conv.h.regions) :
                  conv.block_map[S] \in Range(conv.h.regions[g].blocks.items)

\* the part of C29 that holds: a module without successors is converted
\* block for block when it is converted operation for operation
C29_BlocksWithoutSuccessors ==
    (irpc = "imm" /\ conv.exc = NoExc /\ ~HasSuccessor(mh)
        /\ Len(conv.h.ops) = Len(mh.ops)) => Len(conv.h.blocks) = Len(mh.blocks)
(***************************************************************************)
(* C28: the direction of the lowered conditional branch.  The comparison  *)
(* operands are integers of MaxWidth bits, held as 0 .. 2^MaxWidth - 1.    *)
(***************************************************************************)
MaxWidth == 2

RECURSIVE Pow2(_)
Pow2(n) == IF n = 0 THEN 1 ELSE 2 * Pow2(n - 1)

\* the bit pattern read as a two's complement number
AsSigned(v) == IF v >= Pow2(MaxWidth - 1) THEN v - Pow2(MaxWidth) ELSE v

\* arith.cmpi: eq, ne, slt, sle, sgt, sge, ult, ule, ugt, uge
CmpiHolds(predicate, a, b) ==
    CASE predicate = 0 -> a = b
      [] predicate = 1 -> a # b
      [] predicate = 2 -> AsSigned(a) < AsSigned(b)
      [] predicate = 3 -> AsSigned(a) <= AsSigned(b)
      [] predicate = 4 -> AsSigned(a) > AsSigned(b)
      [] predicate = 5 -> AsSigned(a) >= AsSigned(b)
      [] predicate = 6 -> a < b
      [] predicate = 7 -> a <= b
      [] predicate = 8 -> a > b
      [] predicate = 9 -> a >= b

\* the comparison of rs1 and rs2 a riscv_cf branch makes
BranchHolds(name, x, y) ==
    CASE name = "riscv_cf.beq" -> x = y
      [] name = "riscv_cf.bne" -> x # y
      [] name = "riscv_cf.blt" -> AsSigned(x) < AsSigned(y)
      [] name = "riscv_cf.bge" -> AsSigned(x) >= AsSigned(y)
      [] name = "riscv_cf.bltu" -> x < y
      [] name = "riscv_cf.bgeu" -> x >= y

\* the value a register stands for: a move copies its operand, a cast
\* passes its operands through
RegisterSource(rm, v) ==
    LET w == IF v.k = "res" /\ rm.h.ops[v.id].op_type = "riscv.mv"
             THEN rm.h.ops[v.id].operands[1] ELSE v
    IN  IF w.k = "res"
           /\ rm.h.ops[w.id].op_type = "builtin.unrealized_conversion_cast"
        THEN rm.h.ops[w.id].operands[w.idx + 1]
        ELSE w

\* where control goes, and with which values
Transfer(block, arguments) == [block |-> block, arguments |-> arguments]

\* the riscv_cf branch: to its first listed block with its first listed
\* arguments when its comparison holds, else to the second; value gives
\* the content of the compared registers
BranchTransfer(rm, branch, value) ==
    LET operands == rm.h.ops[branch].operands
        n == RwAttr(rm, branch, "then_arguments")
        sources == [i \in 1..Len(operands) |-> RegisterSource(rm, operands[i])]
    IN  IF BranchHolds(rm.h.ops[branch].op_type, value[VKey(sources[1])],
                       value[VKey(sources[2])])
        THEN Transfer(rm.h.ops[branch].successors[1], SubSeq(sources, 3, 2 + n))
        ELSE Transfer(rm.h.ops[branch].successors[2],
                      SubSeq(sources, 3 + n, Len(operands)))

\* the cf.cond_br on a comparison: to then_block with then_arguments when
\* the predicate holds on (lhs, rhs), else to else_block with else_arguments
CondBrTransfer(rm, op, value) ==
    LET cmpi == rm.h.ops[op].operands[1].id
    IN  IF CmpiHolds(RwAttr(rm, cmpi, "predicate"),
                     value[VKey(rm.h.ops[cmpi].operands[1])],
                     value[VKey(rm.h.ops[cmpi].operands[2])])
        THEN Transfer(rm.h.ops[op].successors[1], then_arguments(rm, op))
        ELSE Transfer(rm.h.ops[op].successors[2], else_arguments(rm, op))

\* the module given to the pass held a conditional branch on a comparison
\* of one of the predicates
CmpiBranchGiven(predicates) ==
    /\ rpc \in {"run", "done", "raised"}
    /\ Len(rstart.blocks) = 3
    /\ Len(rstart.blocks[1].ops) = 5
    /\ rstart.ops[rstart.blocks[1].ops[5]].op_type = "cf.cond_br"
    /\ rstart.ops[rstart.blocks[1].ops[5]].operands[1].k = "res"
    /\ rstart.ops[rstart.ops[rstart.blocks[1].ops[5]].operands[1].id].op_type
           = "arith.cmpi"
    /\ RwAttr([h |-> rstart], rstart.ops[rstart.blocks[1].ops[5]].operands[1].id,
              "predicate") \in predicates

\* the branch transfers control as the conditional branch of the module
\* given to the pass did, for all contents of the two compared values
SameTransfer(rm, branch) ==
    LET old == [h |-> rstart]
        cond_br == rstart.blocks[1].ops[5]
        cmpi == rstart.ops[cond_br].operands[1].id
        lhs == VKey(rstart.ops[cmpi].operands[1])
        rhs == VKey(rstart.ops[cmpi].operands[2])
    IN  \A a \in 0..(Pow2(MaxWidth) - 1) : \A b \in 0..(Pow2(MaxWidth) - 1) :
            LET value == [key \in {lhs, rhs} |-> IF key = lhs THEN a ELSE b]
            IN  BranchTransfer(rm, branch, value) = CondBrTransfer(old, cond_br, value)

\* C28: for every predicate 0..9 and every pair of values of the width,
\* the pass replaces a conditional branch on a comparison by a riscv_cf
\* branch that goes to then_block with then_arguments exactly when the
\* predicate holds on (lhs, rhs), and to else_block with else_arguments
\* otherwise: once the pass is over, without exception, the block ends in
\* such a branch
C28_BranchDirection ==
    (CmpiBranchGiven(0..9) /\ rpc \in {"done", "raised"}) =>
        /\ rpc = "done"
        /\ rexc = NoExc
        /\ rmod.h.ops[BlockOps(rmod)[Len(BlockOps(rmod))]].op_type
              \in {"riscv_cf.beq", "riscv_cf.bne", "riscv_cf.blt", "riscv_cf.bge",
                   "riscv_cf.bltu", "riscv_cf.bgeu"}
        /\ SameTransfer(rmod, BlockOps(rmod)[Len(BlockOps(rmod))])

\* the branch the dispatch on the predicate (65-179) builds from the
\* compared values and the arguments as they stand, were the casts to
\* registers to succeed
DispatchedBranch ==
    LET cond_br == rstart.blocks[1].ops[5]
        cmpi == rstart.ops[cond_br].operands[1].id
        old == [h |-> rstart, uses |-> EmptyDict]
    IN  CondBranch(old, RwAttr(old, cmpi, "predicate"),
                   rstart.ops[cmpi].operands[1], rstart.ops[cmpi].operands[2],
                   then_arguments(old, cond_br), else_arguments(old, cond_br),
                   rstart.ops[cond_br].successors[1],
                   rstart.ops[cond_br].successors[2])

\* the dispatch of C28 read by itself: the branch it builds keeps the
\* direction for every predicate
C28_DispatchDirection ==
    CmpiBranchGiven(0..9) => SameTransfer(DispatchedBranch.rm, DispatchedBranch.ret)

\* the part of the dispatch that keeps the direction: eq, ne, slt, sge, uge
C28_DispatchDirectionUnflipped ==
    CmpiBranchGiven({0, 1, 2, 5, 9})
        => SameTransfer(DispatchedBranch.rm, DispatchedBranch.ret)
====
